---- MODULE Spec2Model ----
(***************************************************************************)
(* Model of the gfa authentication gateway: the single-use token           *)
(* validator (middlewares/security/once_token) and its construction, the   *)
(* request matcher (utils/router), the Security middleware                 *)
(* (middlewares/security), the credential extractors, the signed-token,    *)
(* session and API-key validators, and Run / Async (gfa.go).               *)
(*                                                                         *)
(* Go strings that the code only compares are TLA+ strings; strings the    *)
(* code cuts and joins (routes, match keys) are sequences of characters.   *)
(***************************************************************************)
EXTENDS Integers, Sequences, FiniteSets, TLC

(***************************************************************************)
(* Bounds                                                                  *)
(***************************************************************************)
\* goroutines calling ValidateAndConsumeToken at once
NumCallers == 2
\* ValidateAndConsumeToken calls in one run
MaxCalls == 4
\* AddRoute / PermitRoute calls in one run
MaxRoutes == 2
\* clock ticks in one run of the signed-token validator
MaxTime == 5

VARIABLES
    store,       \* once-token: the redis keyspace, key -> stored path
    issued,      \* once-token: token -> path it was generated for (history)
    call,        \* once-token: per caller, the position inside ValidateAndConsumeToken
    calls,       \* once-token: number of ValidateAndConsumeToken calls begun
    log,         \* once-token: per token, the completed calls in completion order (history)
    concurrent,  \* once-token: tokens on which two calls overlapped (history)
    expired,     \* once-token: tokens whose entry the TTL removed (history)
    basePath,    \* config: the value of server.base_path
    matcher,     \* router: the *RequestMatcher (nil, or its expectedRoutes)
    added,       \* router: the (route, method) arguments of the AddRoute / PermitRoute calls (history)
    lastMatch,   \* router: the last Match call made on the current route set
    cfgKeys,     \* config: which of security.session / .jwt / .api_key are present
    customValidators, \* security: names registered through WithValidator
    validators,  \* security: names in the validators map
    built,       \* security: Security() has returned the middleware
    ctx,         \* security: the gin.Context of the request the middleware handled
    tokenLookup, \* extractors: the configured lookup string (token_lookup / lookup)
    tokenLookupMap, \* extractors: the (source, key) pairs parsed from it
    request,     \* extractors: the request the extractors last ran on
    extracted,   \* extractors: what each validator's extractor returned for it
    validateHandler, \* api key: the configured ValidateHandler callback (or nil)
    apiKeyOp,    \* api key: the last Valid call, its request context and the callback calls (history)
    now,         \* jwt: the clock, in ticks (TicksPerSecond to the second)
    validator,   \* jwt: the *jwtx.Validator (config and signing method)
    minted,      \* jwt: the last token GenerateToken returned and the last refresh (history)
    jwtOp,       \* jwt: the last call, its arguments, results and request context (history)
    sessionStore,     \* session: the request's session store, key -> value
    sessionValidator, \* session: the *session.Validator (its config)
    sessionOp,   \* session: the last Valid call, the store it saw and its request context (history)
    logLevel,    \* setup: the level of the global logger (logger.level), or no logger
    redisxClient, \* setup: redisx.Client, the globally configured store client
    globalOnceTokenValidator, \* setup: the package-level *OnceTokenValidator
    localValidator, \* setup: the validator the last constructor call returned
    setupOp,     \* setup: the last constructor or package-level call and how it ended (history)
    run,         \* run: the position of Run ("idle", "serving", "returned", "crashed")
    server,      \* run: the goroutine of syncx.All that serves HTTP
    waiter,      \* run: the goroutine of syncx.All that calls cancelWg.Wait()
    cancelCtx,   \* run: the package-level context ("nil", "active", "cancelled")
    cancelWg,    \* run: the counter of the package-level WaitGroup
    async        \* run: per function given to Async / AsyncWithCancel, its goroutine

onceVars == <<store, issued, call, calls, log, concurrent, expired>>
routerVars == <<basePath, matcher, added, lastMatch>>
secVars == <<cfgKeys, customValidators, validators, built, ctx>>
extractVars == <<tokenLookup, tokenLookupMap, request, extracted, validateHandler, apiKeyOp>>
jwtVars == <<now, validator, minted, jwtOp>>
sessionVars == <<sessionStore, sessionValidator, sessionOp>>
setupVars == <<logLevel, redisxClient, globalOnceTokenValidator, localValidator, setupOp>>
runVars == <<run, server, waiter, cancelCtx, cancelWg, async>>
authVars == <<extractVars, jwtVars, sessionVars, setupVars, runVars>>

vars == <<onceVars, routerVars, secVars, authVars>>

(***************************************************************************)
(* Values of the router and security state before anything has run         *)
(***************************************************************************)
\* var matcher *router.RequestMatcher: the nil pointer
NilMatcher == [nil |-> TRUE, expectedRoutes |-> {}]
\* no Match call has been made on the current route set
NoMatchCall == [called |-> FALSE, uri |-> <<>>, method |-> <<>>, result |-> FALSE]
\* no request is being handled
NoRequest ==
    [handled |-> FALSE, path |-> <<>>, method |-> <<>>, accepts |-> {},
     permitted |-> FALSE, authType |-> "", typeWrites |-> 0, called |-> <<>>,
     next |-> FALSE, aborted |-> FALSE, status |-> 200]

RouterIdle ==
    /\ basePath = <<>>
    /\ matcher = NilMatcher
    /\ added = {}
    /\ lastMatch = NoMatchCall

SecurityIdle ==
    /\ cfgKeys = {}
    /\ customValidators = {}
    /\ validators = {}
    /\ built = FALSE
    /\ ctx = NoRequest

\* no request has been given to the extractors
NoExtraction == [called |-> FALSE]
\* a nil ValidateHandler; no Valid call of the api key validator has been made
NilHandler == "nil"
NoApiKeyOp == [op |-> "none"]

ExtractIdle ==
    /\ tokenLookup = <<>>
    /\ tokenLookupMap = <<>>
    /\ request = <<>>
    /\ extracted = NoExtraction
    /\ validateHandler = NilHandler
    /\ apiKeyOp = NoApiKeyOp

\* no signed-token validator has been built, no call has been made
NoJwtValidator == [built |-> FALSE]
NoJwtOp == [op |-> "none"]
NoMinted == [generated |-> {}, refreshed |-> {}]

JwtIdle ==
    /\ now = 0
    /\ validator = NoJwtValidator
    /\ minted = NoMinted
    /\ jwtOp = NoJwtOp

\* no session validator has been built, no call has been made
NoSessionValidator == [built |-> FALSE]
NoSessionOp == [op |-> "none"]

SessionIdle ==
    /\ sessionStore = <<>>
    /\ sessionValidator = NoSessionValidator
    /\ sessionOp = NoSessionOp

\* a nil redis.UniversalClient, a nil *OnceTokenValidator, no logger set up
NilClient == "nil"
NilOtv == [nil |-> TRUE, redisClient |-> NilClient]
NoLogger == "no logger"
NoSetupOp == [op |-> "none"]

SetupIdle ==
    /\ logLevel = NoLogger
    /\ redisxClient = NilClient
    /\ globalOnceTokenValidator = NilOtv
    /\ localValidator = NilOtv
    /\ setupOp = NoSetupOp

\* functions an application hands to Async / AsyncWithCancel
AsyncFuncs == {"f1", "f2"}
\* a function that has not been handed over
NotStarted == [state |-> "none", ctx |-> "nil", during |-> "idle"]

RunIdle ==
    /\ run = "idle"
    /\ server = "idle"
    /\ waiter = "idle"
    /\ cancelCtx = "nil"
    /\ cancelWg = 0
    /\ async = [f \in AsyncFuncs |-> NotStarted]

AuthIdle == ExtractIdle /\ JwtIdle /\ SessionIdle /\ SetupIdle /\ RunIdle

(***************************************************************************)
(* Single-use token validator                                              *)
(***************************************************************************)
ErrOnceTokenInvalid == "once token invalid"
ErrOnceTokenExpired == "once token expired"
ErrOnceTokenPathMismatch == "once token path mismatch"
\* any other error the redis client returns (network, timeout)
ErrStore == "redis error"
NoErr == "nil"

DefaultOnceTokenPrefix == "once_token:"

\* values generateRandomToken returns (uuid.New() without hyphens)
Tokens == {"t1"}
\* a well-formed token that was never generated
BogusToken == "t0"
\* route patterns a token is bound to / c.FullPath() of the validating request
OncePaths == {"", "/a", "/b"}

Callers == 1..NumCallers

\* key := ot.config.Prefix + token
KeyOf(token) == <<DefaultOnceTokenPrefix, token>>

\* redisClient.Set(ctx, key, path, expireTime)
Set(s, key, value) == [k \in DOMAIN s \cup {key} |-> IF k = key THEN value ELSE s[k]]

Del_Noop(s, key) == s
\* redisClient.Del(ctx, key): removing an absent key is no error
Del(s, key) == [k \in DOMAIN s \ {key} |-> s[k]]

PathMismatch_EmptyIsAPath(storedPath, currentPath) == storedPath # currentPath
PathMismatch_Omitted(storedPath, currentPath) == FALSE
\* storedPath != "" && currentPath != "" && storedPath != currentPath
PathMismatch(storedPath, currentPath) ==
    storedPath # "" /\ currentPath # "" /\ storedPath # currentPath

IdleCall == [pc |-> "idle", token |-> "", currentPath |-> "", storedPath |-> "", reads |-> 0]

\* the handler of OnceTokenMiddleware once Valid has returned err: the status
\* and JSON body it answers with, or c.Next()
OnceTokenMiddleware(err) ==
    IF err # NoErr
    THEN [status |-> 401, error |-> <<"once token validation failed: ", err>>, next |-> FALSE]
    ELSE [status |-> 200, error |-> <<>>, next |-> TRUE]

\* the store commands one call issued: how many reads and deletes, and what
\* the read ("none", "err", "nil", "found") and the delete ("none", "ok",
\* "err") returned
StoreIO(reads, get, deletes, del) ==
    [reads |-> reads, get |-> get, deletes |-> deletes, del |-> del]

\* the call of caller p on token returns (ret, err) having issued the store
\* commands io; the middleware answers the request that carried the token
Return(p, token, currentPath, ret, err, io) ==
    /\ call' = [call EXCEPT ![p] = IdleCall]
    /\ log' = IF token \in DOMAIN log
              THEN [log EXCEPT ![token] =
                       Append(@, [cur |-> currentPath, res |-> err, ret |-> ret,
                                  resp |-> OnceTokenMiddleware(err), io |-> io])]
              ELSE log

OnceInit ==
    /\ store = <<>>
    /\ issued = <<>>
    /\ call = [p \in Callers |-> IdleCall]
    /\ calls = 0
    /\ log = [t \in Tokens |-> <<>>]
    /\ concurrent = {}
    /\ expired = {}

\* GenerateToken: a fresh random token, stored under prefix+token with a TTL
GenerateToken(token, path, setOk) ==
    /\ token \in Tokens \ DOMAIN issued
    /\ IF setOk
       THEN /\ store' = Set(store, KeyOf(token), path)
            /\ issued' = Set(issued, token, path)
       ELSE UNCHANGED <<store, issued>>
    /\ UNCHANGED <<call, calls, log, concurrent, expired, routerVars, secVars, authVars>>

\* the store drops the entry when its TTL runs out
TTLExpire(token) ==
    /\ KeyOf(token) \in DOMAIN store
    /\ store' = Del(store, KeyOf(token))
    /\ expired' = expired \cup {token}
    /\ UNCHANGED <<issued, call, calls, log, concurrent, routerVars, secVars, authVars>>

\* ValidateAndConsumeToken up to and including the path check, the store
\* read being the reads-th GET of the call
ValidateRead(p, token, currentPath, getOk, reads) ==
    /\ call[p].pc = "idle"
    /\ calls < MaxCalls
    /\ calls' = calls + 1
    /\ concurrent' = IF \E q \in Callers \ {p} :
                            call[q].pc = "del" /\ call[q].token = token
                     THEN concurrent \cup {token}
                     ELSE concurrent
    /\ IF token = ""
       THEN Return(p, token, currentPath, "", ErrOnceTokenInvalid,
                   StoreIO(0, "none", 0, "none"))
       ELSE IF ~getOk
       THEN Return(p, token, currentPath, "", ErrStore, StoreIO(reads, "err", 0, "none"))
       ELSE IF KeyOf(token) \notin DOMAIN store
       THEN Return(p, token, currentPath, "", ErrOnceTokenExpired,
                   StoreIO(reads, "nil", 0, "none"))
       ELSE IF PathMismatch(store[KeyOf(token)], currentPath)
       THEN Return(p, token, currentPath, "", ErrOnceTokenPathMismatch,
                   StoreIO(reads, "found", 0, "none"))
       ELSE /\ call' = [call EXCEPT ![p] =
                           [pc |-> "del", token |-> token,
                            currentPath |-> currentPath,
                            storedPath |-> store[KeyOf(token)],
                            reads |-> reads]]
            /\ log' = log
    /\ UNCHANGED <<store, issued, expired, routerVars, secVars, authVars>>

ValidateGet_RetryRead(p, token, currentPath, getOk) ==
    ValidateRead(p, token, currentPath, TRUE, IF getOk THEN 1 ELSE 2)
\* ValidateAndConsumeToken up to and including the store read and the path check
ValidateGet(p, token, currentPath, getOk) ==
    ValidateRead(p, token, currentPath, getOk, 1)

\* ValidateAndConsumeToken from the store delete to the return.  A delete
\* that reports an error may or may not have been applied by the server.
ValidateDel(p, delRes) ==
    /\ call[p].pc = "del"
    /\ IF delRes = "ok"
       THEN /\ store' = Del(store, KeyOf(call[p].token))
            /\ Return(p, call[p].token, call[p].currentPath, call[p].storedPath, NoErr,
                      StoreIO(call[p].reads, "found", 1, "ok"))
       ELSE /\ store' = IF delRes = "err_applied"
                        THEN Del(store, KeyOf(call[p].token))
                        ELSE store
            /\ Return(p, call[p].token, call[p].currentPath, "", ErrStore,
                      StoreIO(call[p].reads, "found", 1, "err"))
    /\ UNCHANGED <<issued, calls, concurrent, expired, routerVars, secVars, authVars>>

OnceNext ==
    \/ \E t \in Tokens, path \in OncePaths, setOk \in BOOLEAN :
          GenerateToken(t, path, setOk)
    \/ \E t \in Tokens : TTLExpire(t)
    \/ \E p \in Callers, t \in DOMAIN issued \cup {"", BogusToken},
          cur \in OncePaths, getOk \in BOOLEAN :
          ValidateGet(p, t, cur, getOk)
    \/ \E p \in Callers, delRes \in {"ok", "err_applied", "err_lost"} :
          ValidateDel(p, delRes)

OnceTokenInit == OnceInit /\ RouterIdle /\ SecurityIdle /\ AuthIdle

SpecOnceToken == OnceTokenInit /\ [][OnceNext]_vars

(***************************************************************************)
(* Single-use token: properties                                            *)
(***************************************************************************)
Entries(t) == 1..Len(log[t])
Successes(t) == {i \in Entries(t) : log[t][i].res = NoErr}
NoStoreError(t) == \A i \in Entries(t) : log[t][i].res # ErrStore
InFlight(t) == \E p \in Callers : call[p].pc = "del" /\ call[p].token = t
\* the entry is undisturbed: no TTL expiry and no store failure on it
Undisturbed(t) == t \notin expired /\ NoStoreError(t)
\* calls 1..i-1 on t left the token in the store
Unconsumed(t, i) == \A j \in 1..(i - 1) : log[t][j].res = ErrOnceTokenPathMismatch
\* the caller's path is the bound path or empty
Presentable(t, cur) == cur = "" \/ cur = issued[t]
\* both paths are non-empty and they differ
Differs(t, cur) == cur # "" /\ issued[t] # "" /\ cur # issued[t]

\* C1: when N >= 2 calls on one freshly generated token, each with the bound
\* path or an empty path, have all returned, exactly one of them succeeded,
\* whatever the interleaving of their store reads and deletes.
C1_ExactlyOneConsumer ==
    \A t \in DOMAIN issued :
        ( /\ Undisturbed(t)
          /\ ~InFlight(t)
          /\ Len(log[t]) >= 2
          /\ \A i \in Entries(t) : Presentable(t, log[t][i].cur) )
        => Cardinality(Successes(t)) = 1

\* C2: in a sequential run on an unexpired token, the first call made with
\* the bound path or an empty path succeeds and returns the bound path, and
\* every call after a success fails with the expired error.
C2_SingleUseSequential ==
    \A t \in DOMAIN issued :
        (t \notin concurrent /\ Undisturbed(t)) =>
            /\ (Len(log[t]) >= 1 /\ Presentable(t, log[t][1].cur)) =>
                   (log[t][1].res = NoErr /\ log[t][1].ret = issued[t])
            /\ \A i \in Entries(t), j \in Entries(t) :
                   (i < j /\ log[t][i].res = NoErr) =>
                       log[t][j].res = ErrOnceTokenExpired
            /\ Cardinality(Successes(t)) <= 1

C2_Witness ==
    \E t \in DOMAIN issued :
        /\ t \notin concurrent /\ Undisturbed(t)
        /\ Len(log[t]) >= 2
        /\ log[t][1].res = NoErr /\ log[t][1].ret = issued[t]
        /\ log[t][2].res = ErrOnceTokenExpired
        /\ KeyOf(t) \notin DOMAIN store

\* the step is a call on t returning the path mismatch error
MismatchStep(t) ==
    /\ Len(log'[t]) = Len(log[t]) + 1
    /\ log'[t][Len(log'[t])].res = ErrOnceTokenPathMismatch

C3_MismatchSequential ==
    \A t \in DOMAIN issued :
        (t \notin concurrent /\ Undisturbed(t)) =>
            \A i \in Entries(t) :
                /\ (Unconsumed(t, i) /\ Differs(t, log[t][i].cur)) =>
                       log[t][i].res = ErrOnceTokenPathMismatch
                /\ (i > 1 /\ Unconsumed(t, i) /\ log[t][i].cur = issued[t]) =>
                       (log[t][i].res = NoErr /\ log[t][i].ret = issued[t])

\* C3: a call whose non-empty path differs from the non-empty bound path
\* fails with PathMismatch and leaves the store as it was; a following call
\* with the bound path succeeds and returns it.
C3_MismatchKeepsToken ==
    /\ [][\A t \in Tokens : MismatchStep(t) => store' = store]_vars
    /\ []C3_MismatchSequential

C3_Witness ==
    \E t \in DOMAIN issued :
        /\ t \notin concurrent /\ Undisturbed(t)
        /\ Len(log[t]) >= 2
        /\ log[t][1].res = ErrOnceTokenPathMismatch
        /\ log[t][2].res = NoErr /\ log[t][2].ret = issued[t]
        /\ KeyOf(t) \notin DOMAIN store

\* the step is a call on t returning after a store error on the read
ReadErrorStep(t) ==
    /\ Len(log'[t]) = Len(log[t]) + 1
    /\ log'[t][Len(log'[t])].io.get = "err"

\* C28: ValidateAndConsumeToken never retries. Each call issues at most one
\* store read and at most one store delete; a store error on the read is
\* returned as a failure with no delete issued and the store left as it was;
\* a store error on the delete is returned as a failure; and success is
\* reported only after one read that found the entry and one delete that
\* returned without error.
C28_NoRetry ==
    /\ [](\A t \in Tokens : \A i \in Entries(t) :
             LET e == log[t][i]
             IN /\ e.io.reads <= 1 /\ e.io.deletes <= 1
                /\ e.io.get = "err" => (e.res = ErrStore /\ e.io.deletes = 0)
                /\ e.io.del = "err" => e.res = ErrStore
                /\ e.res = NoErr =>
                       /\ e.io.reads = 1 /\ e.io.get = "found"
                       /\ e.io.deletes = 1 /\ e.io.del = "ok")
    /\ [][\A t \in Tokens : ReadErrorStep(t) => store' = store]_vars

\* a read error, then a delete error, then (the delete was not applied) a
\* success, on one token
C28_Witness ==
    \E t \in DOMAIN issued :
        /\ Len(log[t]) >= 3
        /\ log[t][1].io.get = "err" /\ log[t][1].res = ErrStore
        /\ log[t][2].io.del = "err" /\ log[t][2].res = ErrStore
        /\ log[t][3].res = NoErr
        /\ KeyOf(t) \notin DOMAIN store

\* the bound path of t is empty, or the caller's path is
Unbound(t, cur) == issued[t] = "" \/ cur = ""

\* C29: path binding is optional. In a sequential run on an unexpired token,
\* a call on a not yet consumed token that was generated with an empty bound
\* path succeeds from any current path, and so does a call that passes an
\* empty current path for a token with a non-empty bound path; the call
\* returns the bound path and removes the entry from the store.
C29_PathBindingOptional ==
    \A t \in DOMAIN issued :
        (t \notin concurrent /\ Undisturbed(t)) =>
            \A i \in Entries(t) :
                (Unconsumed(t, i) /\ Unbound(t, log[t][i].cur)) =>
                    /\ log[t][i].res = NoErr
                    /\ log[t][i].ret = issued[t]
                    /\ ~InFlight(t) => KeyOf(t) \notin DOMAIN store

\* a token bound to /a is refused on /b and then accepted with an empty
\* current path
C29_Witness ==
    \E t \in DOMAIN issued :
        /\ t \notin concurrent /\ Undisturbed(t)
        /\ issued[t] = "/a"
        /\ Len(log[t]) = 2
        /\ log[t][1].cur = "/b" /\ log[t][1].res = ErrOnceTokenPathMismatch
        /\ log[t][2].cur = "" /\ log[t][2].res = NoErr /\ log[t][2].ret = "/a"
        /\ KeyOf(t) \notin DOMAIN store

\* the calls on t that failed
Failures(t) == {i \in Entries(t) : log[t][i].res # NoErr}

\* C23: two requests rejected for different internal reasons (path mismatch,
\* consumed or expired token, store error) receive the same unauthorized
\* response, with no detail about the reason.
C23_FailuresIndistinguishable ==
    \A t \in Tokens :
        \A i \in Failures(t), k \in Failures(t) :
            /\ log[t][i].resp.status = 401
            /\ log[t][i].resp = log[t][k].resp

(***************************************************************************)
(* utils/router and utils/http_method                                      *)
(***************************************************************************)
\* route patterns and request paths, as sequences of characters
Empty == <<>>
RouteA == <<"/", "a">>
RouteB == <<"/", "b">>
RouteAB == <<"/", "a", "/", "b">>
RouteAA == <<"/", "a", "/", "a">>
RouteAAB == <<"/", "a", "/", "a", "/", "b">>
RouteABB == <<"/", "a", "/", "b", "/", "b">>
RouteAStar == <<"/", "a", "/", "*">>
RouteSlashStar == <<"/", "*">>
RouteStar == <<"*">>
RouteNoSlash == <<"b">>

\* net/http method names
MethodNameGet == <<"G", "E", "T">>
MethodNamePost == <<"P", "O", "S", "T">>
MethodNamePut == <<"P", "U", "T">>
MethodNameDelete == <<"D", "E", "L", "E", "T", "E">>
MethodNamePatch == <<"P", "A", "T", "C", "H">>
MethodNameOptions == <<"O", "P", "T", "I", "O", "N", "S">>
MethodNameHead == <<"H", "E", "A", "D">>
MethodNameTrace == <<"T", "R", "A", "C", "E">>

MethodGet == 1
MethodPost == 2
MethodPut == 4
MethodDelete == 8
MethodPatch == 16
MethodOptions == 32
MethodHead == 64
MethodTrace == 128
\* All = MethodGet | ... | MethodTrace
All ==
    MethodGet + MethodPost + MethodPut + MethodDelete
        + MethodPatch + MethodOptions + MethodHead + MethodTrace
\* Restful = MethodGet | MethodPost | MethodPut | MethodDelete
Restful == MethodGet + MethodPost + MethodPut + MethodDelete

\* var methodMap = map[uint8]string{...}
methodMap ==
    [k \in {MethodGet, MethodPost, MethodPut, MethodDelete,
            MethodPatch, MethodOptions, MethodHead, MethodTrace} |->
        CASE k = MethodGet -> MethodNameGet
          [] k = MethodPost -> MethodNamePost
          [] k = MethodPut -> MethodNamePut
          [] k = MethodDelete -> MethodNameDelete
          [] k = MethodPatch -> MethodNamePatch
          [] k = MethodOptions -> MethodNameOptions
          [] k = MethodHead -> MethodNameHead
          [] k = MethodTrace -> MethodNameTrace]

\* method&k != 0 for a single-bit k
BitSet(method, k) == (method \div k) % 2 = 1

toMethod_LowBitsOnly(method) ==
    {methodMap[k] : k \in {b \in {MethodGet, MethodPost, MethodPut} : BitSet(method, b)}}
\* toMethod: the names of the bits set; the slice order follows the map
\* iteration and AddRoute only inserts each element, so a set models it
toMethod(method) == {methodMap[k] : k \in {b \in DOMAIN methodMap : BitSet(method, b)}}

\* the `method any` argument: a string, a uint8 bit mask, or another type
StringMethod(str) == [kind |-> "string", str |-> str, bits |-> 0]
Uint8Method(bits) == [kind |-> "uint8", str |-> <<>>, bits |-> bits]
OtherMethod == [kind |-> "int", str |-> <<>>, bits |-> 0]

\* Normalize: switch on reflect.TypeOf(method).Kind()
Normalize(method) ==
    CASE method.kind = "string" -> [err |-> FALSE, methods |-> {method.str}]
      [] method.kind = "uint8" -> [err |-> FALSE, methods |-> toMethod(method.bits)]
      [] OTHER -> [err |-> TRUE, methods |-> {}]

\* strings.HasPrefix(str, prefix)
HasPrefix(str, prefix) ==
    Len(prefix) <= Len(str) /\ SubSeq(str, 1, Len(prefix)) = prefix

\* strings.LastIndex(str, ch) for a one-character ch: 0-based, -1 when absent
LastIndex(str, ch) ==
    LET hits == {i \in 1..Len(str) : str[i] = ch}
    IN IF hits = {} THEN -1 ELSE (CHOOSE i \in hits : \A j \in hits : j <= i) - 1

genMatchKey_NoMethod(uri, method) == uri
\* fmt.Sprintf("%s#%s", uri, method)
genMatchKey(uri, method) == uri \o <<"#">> \o method

RECURSIVE MatchLoop(_, _)
RECURSIVE MatchLoop_BreakIsHit(_, _)
MatchLoop_BreakIsHit(expectedRoutes, newUri) ==
    LET index == LastIndex(newUri, "/")
        stripped == IF index >= 0 THEN SubSeq(newUri, 1, index) ELSE newUri
        key == IF index >= 0 THEN stripped \o <<"/", "*">> ELSE <<"*">>
    IN IF key \in expectedRoutes THEN TRUE
       ELSE IF index < 0 THEN TRUE
       ELSE MatchLoop_BreakIsHit(expectedRoutes, stripped)
\* the for loop of Matcher.Match: cut newUri at its last "/", probe
\* newUri + "/*", and when no "/" is left probe "*" and stop
MatchLoop(expectedRoutes, newUri) ==
    LET index == LastIndex(newUri, "/")
        stripped == IF index >= 0 THEN SubSeq(newUri, 1, index) ELSE newUri
        key == IF index >= 0 THEN stripped \o <<"/", "*">> ELSE <<"*">>
    IN IF key \in expectedRoutes THEN TRUE
       ELSE IF index < 0 THEN FALSE
       ELSE MatchLoop(expectedRoutes, stripped)

\* Matcher.Match
MatcherMatch(expectedRoutes, uri) ==
    IF uri = <<>> THEN FALSE
    ELSE IF uri \in expectedRoutes THEN TRUE
    ELSE MatchLoop(expectedRoutes, uri)

\* the run of a Match call: how it ended ("true", "false" or "panic") and
\* how many times it looked a key up in expectedRoutes
MatchRun(outcome, lookups) == [outcome |-> outcome, lookups |-> lookups]

RECURSIVE MatchLoopRun(_, _, _)
\* the for loop of Matcher.Match with its lookups counted
MatchLoopRun(expectedRoutes, newUri, lookups) ==
    LET index == LastIndex(newUri, "/")
        stripped == IF index >= 0 THEN SubSeq(newUri, 1, index) ELSE newUri
        key == IF index >= 0 THEN stripped \o <<"/", "*">> ELSE <<"*">>
    IN IF key \in expectedRoutes THEN MatchRun("true", lookups + 1)
       ELSE IF index < 0 THEN MatchRun("false", lookups + 1)
       ELSE MatchLoopRun(expectedRoutes, stripped, lookups + 1)

\* Matcher.Match with its lookups counted
MatcherMatchRun(expectedRoutes, uri) ==
    IF uri = <<>> THEN MatchRun("false", 0)
    ELSE IF uri \in expectedRoutes THEN MatchRun("true", 1)
    ELSE MatchLoopRun(expectedRoutes, uri, 1)

RECURSIVE MatchLoopSecond(_, _, _)
\* the for loop of the second Matcher.Match: `if index != 0` also takes the
\* branch for index = -1, where newUri[0:index] panics with slice bounds
\* out of range
MatchLoopSecond(expectedRoutes, newUri, lookups) ==
    LET index == LastIndex(newUri, "/")
    IN IF index # 0
       THEN IF index < 0 THEN MatchRun("panic", lookups)
            ELSE LET stripped == SubSeq(newUri, 1, index)
                 IN IF (stripped \o <<"/", "*">>) \in expectedRoutes
                    THEN MatchRun("true", lookups + 1)
                    ELSE MatchLoopSecond(expectedRoutes, stripped, lookups + 1)
       ELSE MatchRun("false", lookups)

\* the second Matcher.Match
MatcherMatchSecond(expectedRoutes, uri) ==
    IF uri = <<>> THEN MatchRun("false", 0)
    ELSE IF uri \in expectedRoutes THEN MatchRun("true", 1)
    ELSE MatchLoopSecond(expectedRoutes, uri, 1)

\* Matcher.AddRoute
MatcherAddRoute(expectedRoutes, route) == expectedRoutes \cup {route}

\* router.NewRequestMatcher()
NewRequestMatcher == [nil |-> FALSE, expectedRoutes |-> {}]

\* RequestMatcher.AddRoute, first part: the route the keys are built from
PrefixedRoute(base, route) ==
    IF base # <<>> /\ ~HasPrefix(route, base) THEN base \o route ELSE route

\* RequestMatcher.AddRoute
RequestMatcherAddRoute(rm, base, route, method) ==
    LET normalized == Normalize(method)
    IN IF normalized.err THEN rm
       ELSE [rm EXCEPT !.expectedRoutes =
                @ \cup {genMatchKey(PrefixedRoute(base, route), m) : m \in normalized.methods}]

\* RequestMatcher.Match
RequestMatcherMatch(rm, uri, method) ==
    MatcherMatch(rm.expectedRoutes, genMatchKey(uri, method))

\* values server.base_path takes
BasePaths == {Empty, RouteA}
\* routes handed to AddRoute / PermitRoute
Routes == {RouteA, RouteB, RouteAB, RouteAStar, RouteSlashStar, RouteStar}
\* method arguments handed to AddRoute / PermitRoute
MethodArgs ==
    {StringMethod(MethodNameGet), StringMethod(MethodNamePost),
     Uint8Method(MethodGet), Uint8Method(MethodGet + MethodPost),
     Uint8Method(0), OtherMethod}
\* c.FullPath() / uri of the requests matched
Uris == {Empty, RouteA, RouteB, RouteAB, RouteAA, RouteAAB, RouteABB, RouteNoSlash}
\* c.Request.Method of the requests matched
Methods == {MethodNameGet, MethodNamePost, MethodNamePut}

MatcherInit ==
    /\ basePath \in BasePaths
    /\ matcher = NewRequestMatcher
    /\ added = {}
    /\ lastMatch = NoMatchCall
    /\ OnceInit
    /\ SecurityIdle
    /\ AuthIdle

\* a call of RequestMatcher.AddRoute(route, method)
AddRoute(route, method) ==
    /\ Cardinality(added) < MaxRoutes
    /\ matcher' = RequestMatcherAddRoute(matcher, basePath, route, method)
    /\ added' = added \cup {<<route, method>>}
    /\ lastMatch' = NoMatchCall
    /\ UNCHANGED <<basePath, onceVars, secVars, authVars>>

\* a call of RequestMatcher.Match(uri, method)
Match(uri, method) ==
    /\ lastMatch' = [called |-> TRUE, uri |-> uri, method |-> method,
                     result |-> RequestMatcherMatch(matcher, uri, method)]
    /\ UNCHANGED <<basePath, matcher, added, onceVars, secVars, authVars>>

MatcherNext ==
    \/ \E route \in Routes, method \in MethodArgs : AddRoute(route, method)
    \/ \E uri \in Uris, method \in Methods : Match(uri, method)

SpecMatcher == MatcherInit /\ [][MatcherNext]_vars

\* Matcher.AddRoute and Matcher.Match called directly, on any string
RawRoutes ==
    {RouteA, RouteAStar, RouteSlashStar, RouteStar, RouteNoSlash \o RouteSlashStar,
     genMatchKey(RouteAB, MethodNameGet)}
RawUris ==
    {Empty, RouteNoSlash, RouteStar, RouteNoSlash \o RouteA, RouteNoSlash \o RouteAB,
     <<"/">>, RouteA, RouteAB, RouteAAB,
     genMatchKey(Empty, MethodNameGet), genMatchKey(RouteAB, MethodNameGet)}

\* a call of Matcher.AddRoute(route)
AddRawRoute(route) ==
    /\ Cardinality(matcher.expectedRoutes) < MaxRoutes
    /\ matcher' = [matcher EXCEPT !.expectedRoutes = MatcherAddRoute(@, route)]
    /\ lastMatch' = NoMatchCall
    /\ UNCHANGED <<basePath, added, onceVars, secVars, authVars>>

\* a call of Matcher.Match(uri), by either version of the function
MatchRaw(uri) ==
    /\ lastMatch' = [called |-> TRUE, uri |-> uri, method |-> <<>>,
                     result |-> MatcherMatch(matcher.expectedRoutes, uri),
                     first |-> MatcherMatchRun(matcher.expectedRoutes, uri),
                     second |-> MatcherMatchSecond(matcher.expectedRoutes, uri)]
    /\ UNCHANGED <<basePath, matcher, added, onceVars, secVars, authVars>>

RawNext ==
    \/ \E route \in RawRoutes : AddRawRoute(route)
    \/ \E uri \in RawUris : MatchRaw(uri)

SpecRawMatcher == MatcherInit /\ [][RawNext]_vars

\* the same two calls over every kind of method argument and every request
\* method, on routes without wildcards
MaskRoutes == {RouteB, RouteAB}
MaskMethodArgs ==
    {StringMethod(MethodNameGet), StringMethod(MethodNameTrace),
     Uint8Method(MethodDelete), Uint8Method(MethodPatch + MethodHead),
     Uint8Method(Restful), Uint8Method(All), Uint8Method(0), OtherMethod}
MaskUris == {RouteB, RouteAB, RouteA \o RouteB, RouteA \o RouteAB}
AllMethodNames == {methodMap[k] : k \in DOMAIN methodMap}

MaskNext ==
    \/ \E route \in MaskRoutes, method \in MaskMethodArgs : AddRoute(route, method)
    \/ \E uri \in MaskUris, method \in AllMethodNames : Match(uri, method)

SpecMethodMask == MatcherInit /\ [][MaskNext]_vars

(***************************************************************************)
(* Request matcher: properties                                             *)
(***************************************************************************)
\* the whitelist entries (path, method) the AddRoute calls so far declared:
\* the path is the route under the configured base path
RegisteredEntries ==
    UNION {{<<PrefixedRoute(basePath, a[1]), m>> : m \in Normalize(a[2]).methods} : a \in added}

\* pattern is prefix + "/*" and path is one or more segments below prefix
SlashStarCovers(pattern, path) ==
    /\ Len(pattern) >= 2
    /\ SubSeq(pattern, Len(pattern) - 1, Len(pattern)) = RouteSlashStar
    /\ Len(path) > Len(pattern) - 1
    /\ SubSeq(path, 1, Len(pattern) - 1) = SubSeq(pattern, 1, Len(pattern) - 1)

\* pattern is the bare "*", or a prefix + "/*" above path
WildcardCovers(pattern, path) ==
    pattern = RouteStar \/ SlashStarCovers(pattern, path)

CoveredBySlashStar(path, method) ==
    \E e \in RegisteredEntries : e[2] = method /\ SlashStarCovers(e[1], path)

CoveredByWildcard(path, method) ==
    \E e \in RegisteredEntries : e[2] = method /\ WildcardCovers(e[1], path)

Registered(path, method) == <<path, method>> \in RegisteredEntries

\* C7: Match(p, m) is true for every registered whitelist entry (p, m), and
\* Match(p, m2) is false for a method m2 that is not registered for the
\* registered path p and that no registered wildcard covers.
C7_RegisteredEntriesMatch ==
    lastMatch.called =>
        /\ Registered(lastMatch.uri, lastMatch.method) => lastMatch.result
        /\ ( /\ \E e \in RegisteredEntries : e[1] = lastMatch.uri
             /\ ~Registered(lastMatch.uri, lastMatch.method)
             /\ ~CoveredByWildcard(lastMatch.uri, lastMatch.method) )
           => ~lastMatch.result

C7_Witness ==
    /\ lastMatch.called
    /\ Registered(lastMatch.uri, lastMatch.method)
    /\ \E m \in Methods : ~Registered(lastMatch.uri, m)
    /\ lastMatch.result

\* C8: after AddRoute(prefix + "/*", m), Match(path, m) is true for every
\* path one or more segments below prefix, and Match(path, m2) is false for
\* a method m2 with no such entry.
C8_WildcardMethodScoped ==
    lastMatch.called =>
        /\ CoveredBySlashStar(lastMatch.uri, lastMatch.method) => lastMatch.result
        /\ ( /\ ~Registered(lastMatch.uri, lastMatch.method)
             /\ ~CoveredByWildcard(lastMatch.uri, lastMatch.method) )
           => ~lastMatch.result

\* the methods an AddRoute / PermitRoute argument declares: the string itself,
\* or the methods of the bits set in the mask, counted from the lowest bit
BitOrder ==
    <<MethodNameGet, MethodNamePost, MethodNamePut, MethodNameDelete,
      MethodNamePatch, MethodNameOptions, MethodNameHead, MethodNameTrace>>

Pow2(i) == IF i = 0 THEN 1 ELSE IF i = 1 THEN 2 ELSE IF i = 2 THEN 4
           ELSE IF i = 3 THEN 8 ELSE IF i = 4 THEN 16 ELSE IF i = 5 THEN 32
           ELSE IF i = 6 THEN 64 ELSE 128

DeclaredMethods(arg) ==
    IF arg.kind = "string" THEN {arg.str}
    ELSE IF arg.kind = "uint8"
    THEN {BitOrder[i] : i \in {j \in 1..8 : (arg.bits \div Pow2(j - 1)) % 2 = 1}}
    ELSE {}

DeclaredKeys ==
    UNION {{genMatchKey(PrefixedRoute(basePath, a[1]), m) : m \in DeclaredMethods(a[2])}
           : a \in added}

IsPattern(route) == Len(route) >= 1 /\ route[Len(route)] = "*"

\* C31: a bit-mask method whitelists exactly the methods whose bits are set
\* (Restful: GET, POST, PUT, DELETE and nothing else; All: all eight), a
\* string method exactly that method, and a method of another type nothing:
\* the registered keys are those of the declared methods, and a request for a
\* path registered without wildcards matches iff its method is declared.
C31_MethodsWhitelisted ==
    /\ matcher.expectedRoutes = DeclaredKeys
    /\ ( /\ lastMatch.called
         /\ \A a \in added : ~IsPattern(a[1])
         /\ lastMatch.uri # <<>> )
       => ( lastMatch.result <=>
              \E a \in added :
                  /\ PrefixedRoute(basePath, a[1]) = lastMatch.uri
                  /\ lastMatch.method \in DeclaredMethods(a[2]) )

C31_Witness ==
    /\ added = {<<RouteB, Uint8Method(Restful)>>, <<RouteAB, OtherMethod>>}
    /\ Cardinality(matcher.expectedRoutes) = 4
    /\ lastMatch.called
    /\ lastMatch.uri = PrefixedRoute(basePath, RouteB)
    /\ lastMatch.method = MethodNamePatch
    /\ ~lastMatch.result

\* the number of "/" in a string
Slashes(str) == Cardinality({i \in 1..Len(str) : str[i] = "/"})

\* the runs of the two versions of Matcher.Match on the last input
MatchRuns == {lastMatch.first, lastMatch.second}

\* the first version ends with a boolean within the bound on every input
FirstMatchTerminates ==
    lastMatch.called =>
        /\ lastMatch.first.outcome \in {"true", "false"}
        /\ (lastMatch.first.outcome = "true") = lastMatch.result
        /\ lastMatch.first.lookups <= Slashes(lastMatch.uri) + 2
        /\ lastMatch.uri = <<>> => lastMatch.first.outcome = "false"

\* C36: Matcher.Match terminates with a boolean for every input string,
\* including strings with no "/" and strings that do not start with "/",
\* after at most (number of "/" in the input) + 2 set lookups, and returns
\* false for the empty string.
C36_MatchTerminates ==
    lastMatch.called =>
        \A r \in MatchRuns :
            /\ r.outcome \in {"true", "false"}
            /\ r.lookups <= Slashes(lastMatch.uri) + 2
            /\ lastMatch.uri = <<>> => r.outcome = "false"

\* C9: Match is false for every (path, method) that is no registered entry
\* and that no registered wildcard entry covers; with no routes at all it is
\* false for everything.
C9_UnregisteredNeverMatch ==
    lastMatch.called =>
        ( ( /\ ~Registered(lastMatch.uri, lastMatch.method)
            /\ ~CoveredByWildcard(lastMatch.uri, lastMatch.method) )
          => ~lastMatch.result )

C9_Witness ==
    /\ lastMatch.called
    /\ lastMatch.uri # Empty
    /\ \E e \in RegisteredEntries : e[1] = lastMatch.uri \/ e[2] = lastMatch.method
    /\ ~Registered(lastMatch.uri, lastMatch.method)
    /\ ~CoveredByWildcard(lastMatch.uri, lastMatch.method)
    /\ ~lastMatch.result

(***************************************************************************)
(* middlewares/security: the Security middleware                           *)
(***************************************************************************)
StatusUnauthorized == 401

\* config sections whose presence registers a built-in validator
ConfigSections == {"session", "jwt", "api_key"}
\* names handed to WithValidator
CustomNames == {"custom"}

\* routes, method arguments, paths and methods the middleware is driven with
SecRoutes == {RouteA, RouteB, RouteAStar}
SecMethodArgs == {StringMethod(MethodNameGet), Uint8Method(MethodGet + MethodPost), OtherMethod}
SecUris == {RouteA, RouteB, RouteAB}
SecMethods == {MethodNameGet, MethodNamePost}

\* the orders in which `for k, v := range validators` can visit the map
RECURSIVE IterationOrders(_)
IterationOrders(names) ==
    IF names = {} THEN {<<>>}
    ELSE UNION {{<<k>> \o rest : rest \in IterationOrders(names \ {k})} : k \in names}

\* the gin.Context of a request; accepts is the set of validators whose
\* Valid(c) returns nil on it
NewContext(path, method, accepts) ==
    [NoRequest EXCEPT !.handled = TRUE, !.path = path, !.method = method,
                      !.accepts = accepts]

\* c.Next(): the rest of the chain runs
CNext(c) == [c EXCEPT !.next = TRUE]

\* c.AbortWithStatus(code)
AbortWithStatus(c, code) == [c EXCEPT !.aborted = TRUE, !.status = code]

RECURSIVE RangeValidators(_, _)
RECURSIVE RangeValidators_NoReturn(_, _)
RangeValidators_NoReturn(order, c) ==
    IF order = <<>>
    THEN IF c.authType = "" THEN AbortWithStatus(c, StatusUnauthorized) ELSE c
    ELSE LET k == Head(order)
             c1 == [c EXCEPT !.called = Append(@, k)]
         IN IF k \in c.accepts
            THEN RangeValidators_NoReturn(Tail(order),
                     CNext([c1 EXCEPT !.authType = k, !.typeWrites = @ + 1]))
            ELSE RangeValidators_NoReturn(Tail(order), c1)
RangeValidators_FirstOnly(order, c) ==
    IF order = <<>>
    THEN AbortWithStatus(c, StatusUnauthorized)
    ELSE LET k == Head(order)
             c1 == [c EXCEPT !.called = Append(@, k)]
         IN IF k \in c.accepts
            THEN CNext([c1 EXCEPT !.authType = k, !.typeWrites = @ + 1])
            ELSE AbortWithStatus(c1, StatusUnauthorized)
\* for k, v := range validators { if v.Valid(c) == nil { c.Set(Type, k);
\* c.Next(); return } } and, after the loop, the 401
RangeValidators(order, c) ==
    IF order = <<>>
    THEN AbortWithStatus(c, StatusUnauthorized)
    ELSE LET k == Head(order)
             c1 == [c EXCEPT !.called = Append(@, k)]
         IN IF k \in c.accepts
            THEN CNext([c1 EXCEPT !.authType = k, !.typeWrites = @ + 1])
            ELSE RangeValidators(Tail(order), c1)

SecurityHandler_WhitelistFallsThrough(rm, order, c) ==
    IF RequestMatcherMatch(rm, c.path, c.method)
    THEN RangeValidators(order, CNext([c EXCEPT !.permitted = TRUE]))
    ELSE RangeValidators(order, c)
SecurityHandler_EmptyIsNil(rm, order, c) ==
    IF RequestMatcherMatch(rm, c.path, c.method)
    THEN CNext([c EXCEPT !.permitted = TRUE])
    ELSE IF order = <<>> THEN CNext(c)
    ELSE RangeValidators(order, c)
\* the func(c *gin.Context) that Security() returns.  The validators map is
\* made in init() and never set to nil, so the `validators == nil` branch
\* is never taken.
SecurityHandler(rm, order, c) ==
    IF RequestMatcherMatch(rm, c.path, c.method)
    THEN CNext([c EXCEPT !.permitted = TRUE])
    ELSE RangeValidators(order, c)

\* PermitRoute(route, method) on the package variable matcher
PermitRouteOn(rm, base, route, method) ==
    IF rm.nil THEN rm ELSE RequestMatcherAddRoute(rm, base, route, method)

RECURSIVE PermitRoutesOn(_, _, _)
\* PermitRoutes: PermitRoute for each element in turn
PermitRoutesOn(rm, base, routes) ==
    IF routes = <<>> THEN rm
    ELSE PermitRoutesOn(PermitRouteOn(rm, base, Head(routes)[1], Head(routes)[2]),
                        base, Tail(routes))

SecurityInit ==
    /\ basePath \in BasePaths
    /\ matcher = NilMatcher
    /\ added = {}
    /\ lastMatch = NoMatchCall
    /\ cfgKeys \in SUBSET ConfigSections
    /\ customValidators = {}
    /\ validators = {}
    /\ built = FALSE
    /\ ctx = NoRequest
    /\ OnceInit
    /\ AuthIdle

\* WithValidator(name, v)
WithValidator(name) ==
    /\ ~ctx.handled
    /\ name \notin customValidators
    /\ customValidators' = customValidators \cup {name}
    /\ UNCHANGED <<cfgKeys, validators, built, ctx, routerVars, onceVars, authVars>>

\* Security(): a new matcher, the validators of the present config sections
\* and the custom ones, and the middleware
Security ==
    /\ ~ctx.handled
    /\ matcher' = NewRequestMatcher
    /\ validators' = validators \cup cfgKeys \cup customValidators
    /\ built' = TRUE
    /\ UNCHANGED <<cfgKeys, customValidators, ctx, basePath, added, lastMatch, onceVars, authVars>>

\* PermitRoute(route, method)
PermitRoute(route, method) ==
    /\ ~ctx.handled
    /\ Cardinality(added \cup {<<route, method>>}) <= MaxRoutes
    /\ matcher' = PermitRouteOn(matcher, basePath, route, method)
    /\ added' = added \cup {<<route, method>>}
    /\ UNCHANGED <<basePath, lastMatch, secVars, onceVars, authVars>>

\* PermitRoutes(routes)
PermitRoutes(routes) ==
    /\ ~ctx.handled
    /\ Cardinality(added \cup {routes[i] : i \in 1..Len(routes)}) <= MaxRoutes
    /\ matcher' = PermitRoutesOn(matcher, basePath, routes)
    /\ added' = added \cup {routes[i] : i \in 1..Len(routes)}
    /\ UNCHANGED <<basePath, lastMatch, secVars, onceVars, authVars>>

\* the request is over and its context is discarded
RequestEnd ==
    /\ ctx.handled
    /\ ctx' = NoRequest
    /\ UNCHANGED <<cfgKeys, customValidators, validators, built, routerVars, onceVars, authVars>>

\* the middleware handles a request; the map iteration order is not fixed
Handle(path, method, accepts, order) ==
    /\ built
    /\ ~ctx.handled
    /\ ctx' = SecurityHandler(matcher, order, NewContext(path, method, accepts))
    /\ UNCHANGED <<cfgKeys, customValidators, validators, built, routerVars, onceVars, authVars>>

SecurityNext ==
    \/ \E name \in CustomNames : WithValidator(name)
    \/ Security
    \/ /\ ~ctx.handled
       /\ \E route \in SecRoutes, method \in SecMethodArgs : PermitRoute(route, method)
    \/ /\ ~ctx.handled
       /\ \E r1, r2 \in SecRoutes \X SecMethodArgs : PermitRoutes(<<r1, r2>>)
    \/ /\ built /\ ~ctx.handled
       /\ \E order \in IterationOrders(validators), accepts \in SUBSET validators,
             path \in SecUris, method \in SecMethods :
             Handle(path, method, accepts, order)
    \/ RequestEnd

SpecSecurity == SecurityInit /\ [][SecurityNext]_vars

\* the same middleware with a single whitelist entry to declare, for the
\* properties that compare the iteration orders of the registry
OrderNext ==
    \/ \E name \in CustomNames : WithValidator(name)
    \/ Security
    \/ PermitRoute(RouteA, StringMethod(MethodNameGet))
    \/ /\ built /\ ~ctx.handled
       /\ \E order \in IterationOrders(validators), accepts \in SUBSET validators,
             path \in SecUris, method \in SecMethods :
             Handle(path, method, accepts, order)
    \/ RequestEnd

SpecSecurityOrder == SecurityInit /\ [][OrderNext]_vars

(***************************************************************************)
(* Security middleware: properties                                         *)
(***************************************************************************)
\* the request's (full path, method) matches the whitelist matcher
Whitelisted == RequestMatcherMatch(matcher, ctx.path, ctx.method)
\* the validators called on the request, as a set
CalledSet == {ctx.called[i] : i \in 1..Len(ctx.called)}

\* C4: a whitelisted request gets the permitted flag and the next handler,
\* no validator is invoked on it whatever credentials it carries, and it
\* carries no authentication type.
C4_WhitelistBypass ==
    (ctx.handled /\ Whitelisted) =>
        /\ ctx.permitted
        /\ ctx.next
        /\ ~ctx.aborted
        /\ ctx.called = <<>>
        /\ ctx.authType = "" /\ ctx.typeWrites = 0

C4_Witness ==
    /\ ctx.handled /\ Whitelisted
    /\ validators # {}
    /\ ctx.accepts # {} /\ ctx.accepts # validators
    /\ ctx.permitted /\ ctx.next

\* C5: a request that is not whitelisted and that every registered validator
\* rejects (also when none is registered) is aborted with 401 and the next
\* handler is not run.
C5_AllRejectUnauthorized ==
    (ctx.handled /\ ~Whitelisted /\ ctx.accepts \cap validators = {}) =>
        /\ ctx.aborted
        /\ ctx.status = StatusUnauthorized
        /\ ~ctx.next
        /\ ~ctx.permitted /\ ctx.authType = ""

C5_Witness ==
    /\ ctx.handled /\ ~Whitelisted
    /\ Cardinality(validators) >= 2
    /\ CalledSet = validators
    /\ ctx.accepts \cap validators = {}
    /\ ctx.aborted /\ ctx.status = StatusUnauthorized /\ ~ctx.next

\* C6: on a request that is not whitelisted, the first validator that
\* accepts becomes the authentication type, the next handler runs and no
\* further validator is called; the type is written at most once and always
\* names a validator that accepted this request.
C6_FirstSuccessWins ==
    ctx.handled =>
        /\ ctx.typeWrites <= 1
        /\ ctx.authType # "" => (ctx.authType \in ctx.accepts /\ ctx.typeWrites = 1)
        /\ (~Whitelisted /\ ctx.accepts \cap validators # {}) =>
              /\ Len(ctx.called) >= 1
              /\ ctx.authType = ctx.called[Len(ctx.called)]
              /\ ctx.authType \in ctx.accepts \cap validators
              /\ \A i \in 1..(Len(ctx.called) - 1) : ctx.called[i] \notin ctx.accepts
              /\ ctx.next /\ ~ctx.aborted

C6_Witness ==
    /\ ctx.handled /\ ~Whitelisted
    /\ Len(ctx.called) >= 2
    /\ ctx.called[1] \notin ctx.accepts
    /\ ctx.authType = ctx.called[Len(ctx.called)]
    /\ \E v \in (validators \cap ctx.accepts) \ CalledSet : TRUE
    /\ ctx.next

\* what the middleware would have done with the same request had the map
\* iteration visited the validators in the given order
UnderOrder(order) ==
    SecurityHandler(matcher, order, NewContext(ctx.path, ctx.method, ctx.accepts))

\* a context without the fields that depend on which validators were tried
Decision(c) == [c EXCEPT !.authType = "", !.typeWrites = 0, !.called = <<>>]

\* C33: for a fixed request that is not whitelisted, the accept/reject
\* decision is the same for every iteration order of the validator registry
\* (accept iff at least one registered validator accepts); only the recorded
\* authentication type and the validators tried before the accepting one
\* vary with the order.
C33_DecisionOrderIndependent ==
    (ctx.handled /\ ~Whitelisted) =>
        /\ ctx.next <=> (ctx.accepts \cap validators # {})
        /\ ctx.aborted <=> (ctx.accepts \cap validators = {})
        /\ \A order \in IterationOrders(validators) :
              Decision(UnderOrder(order)) = Decision(ctx)

\* two validators accept the request and another order records the other one
C33_Witness ==
    /\ ctx.handled /\ ~Whitelisted
    /\ Cardinality(ctx.accepts \cap validators) >= 2
    /\ Len(ctx.called) >= 2
    /\ ctx.next
    /\ \E order \in IterationOrders(validators) :
          /\ UnderOrder(order).authType # ctx.authType
          /\ UnderOrder(order).called # ctx.called
          /\ UnderOrder(order).next

\* C10: a request to a (route, method) that any earlier PermitRoute or
\* PermitRoutes call declared is bypassed, whether that call came before
\* Security() built the chain or after it.
C10_EveryPermitReflected ==
    (ctx.handled /\ Registered(ctx.path, ctx.method)) =>
        (ctx.permitted /\ ctx.next /\ ctx.called = <<>>)

\* C11: the whitelist is monotone: a (path, method) that Match answers true
\* for is still answered true after any step (AddRoute, PermitRoute,
\* PermitRoutes or Security()).
C11_WhitelistMonotone ==
    [][\A p \in SecUris, m \in SecMethods :
          RequestMatcherMatch(matcher, p, m) => RequestMatcherMatch(matcher', p, m)]_vars

(***************************************************************************)
(* Credential extractors (jwtx, apikey, once_token)                        *)
(*                                                                         *)
(* A lookup string and a request value are sequences of lexemes: a word    *)
(* that holds no separator, or one of ":", ",", " ", "Bearer ", "bearer ". *)
(***************************************************************************)
ErrJwtNotFoundQueryToken == "not found jwt token in query"
ErrJwtNotFoundHeaderToken == "not found jwt token in header"
ErrNotFoundApiKey == "not found api key"
ErrOnceTokenNotFound == "once token not found"
\* http.ErrNoCookie, what c.Cookie returns for a cookie the request lacks
ErrNoCookie == "http: named cookie not present"

RECURSIVE Split(_, _)
\* strings.Split(s, sep) for a one-lexeme separator
Split(s, sep) ==
    IF \A i \in 1..Len(s) : s[i] # sep THEN <<s>>
    ELSE LET i == CHOOSE k \in 1..Len(s) : s[k] = sep /\ \A j \in 1..(k - 1) : s[j] # sep
         IN <<SubSeq(s, 1, i - 1)>> \o Split(SubSeq(s, i + 1, Len(s)), sep)

RECURSIVE TrimSpace(_)
\* strings.TrimSpace
TrimSpace(s) ==
    IF s = <<>> THEN s
    ELSE IF Head(s) = " " THEN TrimSpace(Tail(s))
    ELSE IF s[Len(s)] = " " THEN TrimSpace(SubSeq(s, 1, Len(s) - 1))
    ELSE s

\* strings.TrimPrefix(s, prefix) for a one-lexeme prefix
TrimPrefix(s, prefix) ==
    IF s # <<>> /\ Head(s) = prefix THEN Tail(s) ELSE s

RECURSIVE LookupPairs(_)
\* the loop of parseTokenLookup / parseLookup over the fields: a field with
\* exactly two parts is appended, any other field is skipped
LookupPairs(fields) ==
    IF fields = <<>> THEN <<>>
    ELSE LET parts == Split(TrimSpace(Head(fields)), ":")
         IN (IF Len(parts) = 2 THEN <<<<parts[1], parts[2]>>>> ELSE <<>>)
            \o LookupPairs(Tail(fields))

\* parseTokenLookup (jwtx, once_token) and parseLookup (apikey): the same code
parseTokenLookup(lookup) == LookupPairs(Split(lookup, ","))

\* c.Query(key), c.GetHeader(key): the empty string for a key the request lacks
Query(c, key) == IF key \in DOMAIN c.query THEN c.query[key] ELSE <<>>
GetHeader(c, key) == IF key \in DOMAIN c.header THEN c.header[key] ELSE <<>>
\* c.Cookie(key): the value, or ErrNoCookie
Cookie(c, key) ==
    IF key \in DOMAIN c.cookie THEN [val |-> c.cookie[key], err |-> NoErr]
    ELSE [val |-> <<>>, err |-> ErrNoCookie]

\* jwtx.tokenFromQuery
tokenFromQuery(c, key) ==
    LET token == Query(c, key)
    IN IF token = <<>> THEN [val |-> <<>>, err |-> ErrJwtNotFoundQueryToken]
       ELSE [val |-> token, err |-> NoErr]

\* jwtx.tokenFromHeader
tokenFromHeader(c, key) ==
    LET token == GetHeader(c, key)
    IN IF token = <<>> THEN [val |-> <<>>, err |-> ErrJwtNotFoundHeaderToken]
       ELSE [val |-> TrimSpace(TrimPrefix(TrimPrefix(token, "Bearer "), "bearer ")),
             err |-> NoErr]

\* jwtx.tokenFromCookie
tokenFromCookie(c, key) ==
    LET ck == Cookie(c, key)
    IN IF ck.err # NoErr \/ ck.val = <<>>
       THEN [val |-> <<>>, err |-> ErrJwtNotFoundHeaderToken]
       ELSE [val |-> ck.val, err |-> NoErr]

\* the switch of jwtx extractToken on one (source, key) pair
JwtSource(c, lookup, key) ==
    IF lookup = <<"query">> THEN tokenFromQuery(c, key)
    ELSE IF lookup = <<"header">> THEN tokenFromHeader(c, key)
    ELSE IF lookup = <<"cookie">> THEN tokenFromCookie(c, key)
    ELSE tokenFromHeader(c, key)

\* the switch of apikey extractApiKey and of once_token extractToken on one
\* (source, key) pair
PlainSource(c, lookup, key) ==
    IF lookup = <<"query">> THEN [val |-> Query(c, key), err |-> NoErr]
    ELSE IF lookup = <<"header">> THEN [val |-> GetHeader(c, key), err |-> NoErr]
    ELSE IF lookup = <<"cookie">> THEN Cookie(c, key)
    ELSE [val |-> GetHeader(c, key), err |-> NoErr]

RECURSIVE ExtractLoop(_, _, _)
\* the loop of jwtx extractToken from pair i on; consulted counts the pairs
\* the loop looked at
ExtractLoop(lookupMap, c, i) ==
    IF i > Len(lookupMap)
    THEN [token |-> <<>>, err |-> ErrJwtNotFoundHeaderToken, consulted |-> i - 1]
    ELSE LET r == JwtSource(c, lookupMap[i][1], lookupMap[i][2])
         IN IF r.err = NoErr /\ r.val # <<>>
            THEN [token |-> r.val, err |-> NoErr, consulted |-> i]
            ELSE ExtractLoop(lookupMap, c, i + 1)

extractToken_FirstPairOnly(lookupMap, c) ==
    IF lookupMap = <<>>
    THEN [token |-> <<>>, err |-> ErrJwtNotFoundHeaderToken, consulted |-> 0]
    ELSE LET r == JwtSource(c, lookupMap[1][1], lookupMap[1][2])
         IN IF r.err = NoErr /\ r.val # <<>>
            THEN [token |-> r.val, err |-> NoErr, consulted |-> 1]
            ELSE [token |-> <<>>, err |-> ErrJwtNotFoundHeaderToken, consulted |-> 1]
\* jwtx Validator.extractToken
extractToken(lookupMap, c) == ExtractLoop(lookupMap, c, 1)

RECURSIVE PlainLoop(_, _, _, _)
\* the loop of extractApiKey / once_token extractToken from pair i on
PlainLoop(lookupMap, c, i, notFound) ==
    IF i > Len(lookupMap)
    THEN [token |-> <<>>, err |-> notFound, consulted |-> i - 1]
    ELSE LET r == PlainSource(c, lookupMap[i][1], lookupMap[i][2])
         IN IF r.err = NoErr /\ r.val # <<>>
            THEN [token |-> r.val, err |-> NoErr, consulted |-> i]
            ELSE PlainLoop(lookupMap, c, i + 1, notFound)

\* apikey Validator.extractApiKey
extractApiKey(lookupMap, c) == PlainLoop(lookupMap, c, 1, ErrNotFoundApiKey)
\* once_token OnceTokenValidator.extractToken
OnceExtractToken(lookupMap, c) == PlainLoop(lookupMap, c, 1, ErrOnceTokenNotFound)

\* lookup strings a deployment may configure
LookupHeader == <<"header", ":", "Authorization">>
LookupQueryHeader == <<"query", ":", "token", ",", "header", ":", "Authorization">>
LookupCookieQuery == <<"cookie", ":", "jwt", ",", " ", "query", ":", "token">>
LookupHeaderCookie == <<"header", ":", "Authorization", ",", "cookie", ":", "jwt">>
LookupOtherSource == <<"body", ":", "Authorization", ",", "query", ":", "token">>
LookupNoKey == <<"header">>
LookupThreeParts == <<"header", ":", "Authorization", ":", "x", ",", "query", ":", "token">>
TokenLookups ==
    {LookupHeader, LookupQueryHeader, LookupCookieQuery, LookupHeaderCookie,
     LookupOtherSource, LookupNoKey, LookupThreeParts}

\* values of the Authorization header, the token query parameter and the
\* jwt cookie; <<>> is the empty string
HeaderValues ==
    {<<>>, <<"x">>, <<"Bearer ", "x">>, <<"bearer ", "x">>, <<"Bearer ">>, <<" ", "x", " ">>}
QueryValues == {<<>>, <<"q">>, <<"Bearer ", "q">>}
CookieValues == {<<>>, <<"c">>}
NoCookie == <<"no cookie">>

\* a request with the given header and query parameter, and the cookie
\* unless ck is NoCookie
NewRequest(h, q, ck) ==
    [header |-> [k \in {<<"Authorization">>} |-> h],
     query |-> [k \in {<<"token">>} |-> q],
     cookie |-> IF ck = NoCookie THEN <<>> ELSE [k \in {<<"jwt">>} |-> ck]]

ExtractInit ==
    /\ ExtractIdle /\ JwtIdle /\ SessionIdle /\ SetupIdle /\ RunIdle
    /\ OnceInit /\ RouterIdle /\ SecurityIdle

extractOthers == <<onceVars, routerVars, secVars, jwtVars, sessionVars, setupVars, runVars>>

ErrApiKeyValidateFailed == "api key validation failed"

\* callbacks an application may configure as ValidateHandler: by name, with
\* what each returns for (request, key)
ValidateHandlers == {"acceptAll", "rejectAll", "acceptX", "matchQuery"}
CallHandler(h, c, apiKey) ==
    IF h = "acceptAll" THEN NoErr
    ELSE IF h = "rejectAll" THEN ErrApiKeyValidateFailed
    ELSE IF h = "acceptX" THEN (IF apiKey = <<"x">> THEN NoErr ELSE ErrApiKeyValidateFailed)
    ELSE (IF Query(c.request, <<"token">>) = <<"q">> THEN NoErr ELSE "tenant not allowed")

\* a gin.Context for request c before the api key validator ran: the value
\* under ContextKey, the callback calls and what Valid returned
NewApiKeyContext(c) ==
    [request |-> c, apiKeySet |-> FALSE, apiKey |-> <<>>, handlerCalls |-> <<>>, err |-> NoErr]

ApiKeyValid_KeyPresenceOnly(handler, lookupMap, c) ==
    LET r == extractApiKey(lookupMap, c.request)
    IN IF r.err # NoErr THEN [c EXCEPT !.err = r.err]
       ELSE [c EXCEPT !.apiKeySet = TRUE, !.apiKey = r.token]
\* apikey Validator.Valid(c)
ApiKeyValid(handler, lookupMap, c) ==
    LET r == extractApiKey(lookupMap, c.request)
    IN IF r.err # NoErr THEN [c EXCEPT !.err = r.err]
       ELSE LET c1 == [c EXCEPT !.apiKeySet = TRUE, !.apiKey = r.token]
            IN IF handler # NilHandler
               THEN [c1 EXCEPT !.handlerCalls = Append(@, r.token),
                               !.err = CallHandler(handler, c1, r.token)]
               ELSE c1

\* the three validators are built with the same lookup string, the api key
\* validator with the callback handler
NewValidators(lookup, handler) ==
    /\ tokenLookup = <<>>
    /\ tokenLookup' = lookup
    /\ tokenLookupMap' = parseTokenLookup(lookup)
    /\ validateHandler' = handler
    /\ UNCHANGED <<request, extracted, apiKeyOp, extractOthers>>

\* the api key validator's Valid(c) runs on the request
CallApiKeyValid ==
    /\ extracted # NoExtraction
    /\ apiKeyOp = NoApiKeyOp
    /\ apiKeyOp' = [op |-> "Valid",
                    c |-> ApiKeyValid(validateHandler, tokenLookupMap,
                                      NewApiKeyContext(request))]
    /\ UNCHANGED <<tokenLookup, tokenLookupMap, request, extracted, validateHandler,
                   extractOthers>>

\* a new request c arrives and each validator's extractor runs on it
Extract(c) ==
    /\ tokenLookup # <<>>
    /\ request' = c
    /\ apiKeyOp' = NoApiKeyOp
    /\ extracted' = [called |-> TRUE,
                     jwt |-> extractToken(tokenLookupMap, c),
                     apikey |-> extractApiKey(tokenLookupMap, c),
                     once |-> OnceExtractToken(tokenLookupMap, c)]
    /\ UNCHANGED <<tokenLookup, tokenLookupMap, validateHandler, extractOthers>>

ExtractNext ==
    \/ \E lookup \in TokenLookups, handler \in ValidateHandlers \cup {NilHandler} :
          NewValidators(lookup, handler)
    \/ \E h \in HeaderValues, q \in QueryValues, ck \in CookieValues \cup {NoCookie} :
          Extract(NewRequest(h, q, ck))
    \/ CallApiKeyValid

SpecExtract == ExtractInit /\ [][ExtractNext]_vars

(***************************************************************************)
(* Credential extractors: properties                                       *)
(***************************************************************************)
\* the well-formed source:key fields of the lookup string, in declared order
DeclaredPairs ==
    LET fields == Split(tokenLookup, ",")
        parts(i) == Split(TrimSpace(fields[i]), ":")
        wellFormed == {i \in 1..Len(fields) : Len(parts(i)) = 2}
        nth(k) == CHOOSE i \in wellFormed : Cardinality({j \in wellFormed : j < i}) = k - 1
    IN [k \in 1..Cardinality(wellFormed) |-> <<parts(nth(k))[1], parts(nth(k))[2]>>]
\* what the signed-token extractor gets from the k-th declared pair
JwtYield(k) ==
    LET r == JwtSource(request, DeclaredPairs[k][1], DeclaredPairs[k][2])
    IN IF r.err = NoErr THEN r.val ELSE <<>>
\* the declared pairs that yield a non-empty value on the request
JwtHits == {k \in 1..Len(DeclaredPairs) : JwtYield(k) # <<>>}

\* C12: the extractor returns the value of the first declared pair that
\* yields a non-empty value and looks at no later pair; when no pair yields
\* one it fails with the not-found error.
C12_FirstNonEmptyInOrder ==
    extracted.called =>
        IF JwtHits = {}
        THEN /\ extracted.jwt.err = ErrJwtNotFoundHeaderToken
             /\ extracted.jwt.token = <<>>
        ELSE LET first == CHOOSE k \in JwtHits : \A j \in JwtHits : k <= j
             IN /\ extracted.jwt.err = NoErr
                /\ extracted.jwt.token = JwtYield(first)
                /\ extracted.jwt.consulted = first

\* the first pair yields nothing, the second does, on a two-pair chain
C12_Witness ==
    /\ extracted.called
    /\ Len(DeclaredPairs) = 2
    /\ JwtHits = {2}
    /\ extracted.jwt.err = NoErr
    /\ extracted.jwt.token = JwtYield(2)

\* C13: on an equal lookup chain and an equal request the signed-token,
\* API-key and single-use-token extractors return the same credential or
\* all fail.
C13_ExtractorsAgree ==
    extracted.called =>
        /\ extracted.jwt.token = extracted.apikey.token
        /\ extracted.jwt.token = extracted.once.token
        /\ (extracted.jwt.err = NoErr) = (extracted.apikey.err = NoErr)
        /\ (extracted.jwt.err = NoErr) = (extracted.once.err = NoErr)

\* what the lookup chain of the api key validator yields for the request of
\* the last Valid call
ApiKeyFound == extractApiKey(tokenLookupMap, apiKeyOp.c.request)

\* C25: when the lookup chain finds a key and a callback is configured, the
\* api key validator's Valid calls the callback once, with the request and
\* that key, and returns exactly what it returns; when no key is found Valid
\* fails with the not-found error and the callback is not called.
C25_ApiKeyDelegates ==
    apiKeyOp.op = "Valid" =>
        IF ApiKeyFound.err # NoErr
        THEN /\ apiKeyOp.c.err = ErrNotFoundApiKey
             /\ apiKeyOp.c.handlerCalls = <<>>
        ELSE validateHandler # NilHandler =>
                /\ apiKeyOp.c.handlerCalls = <<ApiKeyFound.token>>
                /\ apiKeyOp.c.err =
                       CallHandler(validateHandler,
                                   [NewApiKeyContext(apiKeyOp.c.request) EXCEPT
                                        !.apiKeySet = TRUE, !.apiKey = ApiKeyFound.token],
                                   ApiKeyFound.token)

\* a key the callback rejects, and a request the callback judges by more
\* than the key
C25_Witness ==
    /\ apiKeyOp.op = "Valid"
    /\ validateHandler = "matchQuery"
    /\ ApiKeyFound.err = NoErr /\ ApiKeyFound.token = <<"Bearer ", "x">>
    /\ apiKeyOp.c.handlerCalls = <<ApiKeyFound.token>>
    /\ apiKeyOp.c.err = "tenant not allowed"

\* the fields of a lookup string that are not of the form source:key
MalformedFields(lookup) ==
    {i \in 1..Len(Split(lookup, ",")) :
        Len(Split(TrimSpace(Split(lookup, ",")[i]), ":")) # 2}
\* the validators have been constructed from the configured lookup string
ValidatorsBuilt == tokenLookup # <<>>

\* C26: a lookup string with an entry that is not of the form source:key is
\* fatal at setup: no signed-token, API-key or single-use-token validator is
\* ever constructed from it.
C26_MalformedLookupFatal ==
    ValidatorsBuilt => MalformedFields(tokenLookup) = {}

\* what the three extractors returned on the current request
ExtractorResults == {extracted.jwt, extracted.apikey, extracted.once}

\* no extractor returned success with the empty string
NoEmptySuccess ==
    extracted.called => \A e \in ExtractorResults : e.err = NoErr => e.token # <<>>

\* C34: no credential extractor returns success with an empty credential: a
\* source whose value is empty after processing (a missing header, query or
\* cookie, or a header holding only the Bearer prefix and whitespace) is
\* skipped and the next declared source is tried, and a chain with no
\* well-formed entry yields not-found.
C34_EmptySourceSkipped ==
    extracted.called =>
        \A e \in ExtractorResults :
            /\ e.err = NoErr => e.token # <<>>
            /\ e.err = NoErr <=> JwtHits # {}
            /\ e.err = NoErr =>
                  e.consulted = CHOOSE k \in JwtHits : \A j \in JwtHits : k <= j
            /\ Len(DeclaredPairs) = 0 => e.err # NoErr

\* C32: a validator whose Valid returns an error has written nothing to the
\* request-scoped state: after a failed api key Valid no value is stored
\* under the api key context key.
C32_FailedValidWritesNothing ==
    (apiKeyOp.op = "Valid" /\ apiKeyOp.c.err # NoErr) => ~apiKeyOp.c.apiKeySet

\* C35: an API-key validator built with no validate handler never accepts a
\* request on key presence alone: its Valid does not return success.
C35_NoHandlerNeverAccepts ==
    (apiKeyOp.op = "Valid" /\ validateHandler = NilHandler) => apiKeyOp.c.err # NoErr

(***************************************************************************)
(* Signed-token validator (jwtx) over github.com/golang-jwt/jwt/v5         *)
(*                                                                         *)
(* The clock counts ticks; a NumericDate is a whole number of seconds.     *)
(* A Go interface{} value carries its dynamic type; a number is written    *)
(* as its decimal text.                                                    *)
(***************************************************************************)
ErrJwtInvalidToken == "invalid jwt token"
ErrJwtExpired == "jwt token expired"
DefaultExpireTime == 3600
DefaultRefreshThreshold == 1800
DefaultRefreshHeader == "X-New-Token"
DefaultSigningMethod == "HS256"

\* errors of the jwt library
ErrTokenMalformed == "token is malformed"
ErrTokenUnverifiable == "token is unverifiable"
ErrTokenSignatureInvalid == "token signature is invalid"
ErrTokenExpired == "token is expired"
ErrTokenNotValidYet == "token is not valid yet"

\* resolution of the clock: time.Now() has sub-second precision, and
\* jwt.TimePrecision is one second
TicksPerSecond == 2
\* a nil *jwt.NumericDate
NilDate == -1

\* jwt.NewNumericDate(t): t truncated to jwt.TimePrecision
NewNumericDate(t) == t \div TicksPerSecond
\* now.Before(date.Time)
Before(t, date) == t < date * TicksPerSecond

\* interface{} values by dynamic type
GoString(v) == [t |-> "string", v |-> v]
GoInt(v) == [t |-> "int", v |-> v]
GoFloat64(v) == [t |-> "float64", v |-> v]
\* map[string]interface{}: the nil map, or the set of its (key, value) entries
NilMap == [nil |-> TRUE, entries |-> {}]
MapOf(entries) == [nil |-> FALSE, entries |-> entries]

\* json.Marshal of an interface{} value: a JSON string or a JSON number
MarshalValue(x) ==
    IF x.t = "string" THEN [j |-> "string", v |-> x.v] ELSE [j |-> "number", v |-> x.v]
\* json.Unmarshal into interface{}: a string, or float64 for any number
UnmarshalValue(y) ==
    IF y.j = "string" THEN GoString(y.v) ELSE GoFloat64(y.v)

\* json.Marshal of *Claims: every field is omitempty
MarshalClaims(c) ==
    [user_id |-> [present |-> c.UserID # "", v |-> c.UserID],
     username |-> [present |-> c.Username # "", v |-> c.Username],
     data |-> [present |-> c.Data.entries # {},
               v |-> {<<e[1], MarshalValue(e[2])>> : e \in c.Data.entries}],
     exp |-> [present |-> c.ExpiresAt # NilDate, v |-> c.ExpiresAt],
     iat |-> [present |-> c.IssuedAt # NilDate, v |-> c.IssuedAt],
     nbf |-> [present |-> c.NotBefore # NilDate, v |-> c.NotBefore]]

\* json.Unmarshal into &Claims{}: an absent field keeps its zero value
UnmarshalClaims(o) ==
    [UserID |-> IF o.user_id.present THEN o.user_id.v ELSE "",
     Username |-> IF o.username.present THEN o.username.v ELSE "",
     Data |-> IF o.data.present
              THEN MapOf({<<e[1], UnmarshalValue(e[2])>> : e \in o.data.v})
              ELSE NilMap,
     ExpiresAt |-> IF o.exp.present THEN o.exp.v ELSE NilDate,
     IssuedAt |-> IF o.iat.present THEN o.iat.v ELSE NilDate,
     NotBefore |-> IF o.nbf.present THEN o.nbf.v ELSE NilDate]

\* &Claims{}
ZeroClaims ==
    [UserID |-> "", Username |-> "", Data |-> NilMap,
     ExpiresAt |-> NilDate, IssuedAt |-> NilDate, NotBefore |-> NilDate]

\* the HMAC of text under key with the hash of method: distinct arguments
\* give distinct signatures
HMAC(method, key, text) == [hash |-> method, key |-> key, text |-> text]

\* jwt.NewWithClaims(method, claims).SignedString(key): header, payload and
\* signature
SignedString(method, claims, key) ==
    [token |-> [wellFormed |-> TRUE,
                alg |-> method,
                payload |-> MarshalClaims(claims),
                sig |-> HMAC(method, key, <<method, MarshalClaims(claims)>>)],
     err |-> NoErr]

\* a string that is not three base64 segments, such as "invalid.token.here"
MalformedToken ==
    [wellFormed |-> FALSE, alg |-> "", payload |-> MarshalClaims(ZeroClaims),
     sig |-> HMAC("", "", <<>>)]

\* the signing methods the library has registered
SigningMethods == {"HS256", "HS384", "HS512"}

\* Validator.Validate(claims) of the library at time t: the failed checks
ValidateClaims(claims, t) ==
    (IF claims.ExpiresAt # NilDate /\ ~Before(t, claims.ExpiresAt)
     THEN {ErrTokenExpired} ELSE {})
    \cup
    (IF claims.NotBefore # NilDate /\ Before(t, claims.NotBefore)
     THEN {ErrTokenNotValidYet} ELSE {})

\* Validator.parseSigningMethod
parseSigningMethod(name) ==
    IF name = "HS384" THEN "HS384"
    ELSE IF name = "HS512" THEN "HS512"
    ELSE "HS256"

\* New(cfg): the defaults for the unset fields, then the signing method
New(cfg) ==
    LET c1 == [cfg EXCEPT
                 !.ExpireTime = IF @ = 0 THEN DefaultExpireTime ELSE @,
                 !.RefreshThreshold = IF @ = 0 THEN DefaultRefreshThreshold ELSE @,
                 !.RefreshHeader = IF @ = "" THEN DefaultRefreshHeader ELSE @,
                 !.SigningMethod = IF @ = "" THEN DefaultSigningMethod ELSE @]
    IN [built |-> TRUE, config |-> c1, signingMethod |-> parseSigningMethod(c1.SigningMethod)]

KeyFunc_AnyMethod(j, tok) == [key |-> j.config.PrivateKey, err |-> NoErr]
\* the Keyfunc ParseToken hands to the library: the token's method must be
\* the validator's
KeyFunc(j, tok) ==
    IF tok.alg # j.signingMethod
    THEN [key |-> "", err |-> "invalid signing method"]
    ELSE [key |-> j.config.PrivateKey, err |-> NoErr]

\* jwt.ParseWithClaims(tokenString, &Claims{}, keyFunc) at time t: the
\* segments are decoded, the key is looked up, the signature is verified and
\* then the claims are validated
ParseWithClaims(j, tok, t) ==
    IF ~tok.wellFormed
    THEN [claims |-> ZeroClaims, errs |-> {ErrTokenMalformed}, valid |-> FALSE]
    ELSE IF tok.alg \notin SigningMethods
    THEN [claims |-> ZeroClaims, errs |-> {ErrTokenUnverifiable}, valid |-> FALSE]
    ELSE LET claims == UnmarshalClaims(tok.payload)
             k == KeyFunc(j, tok)
         IN IF k.err # NoErr
            THEN [claims |-> claims, errs |-> {ErrTokenUnverifiable}, valid |-> FALSE]
            ELSE IF tok.sig # HMAC(tok.alg, k.key, <<tok.alg, tok.payload>>)
            THEN [claims |-> claims, errs |-> {ErrTokenSignatureInvalid}, valid |-> FALSE]
            ELSE IF ValidateClaims(claims, t) # {}
            THEN [claims |-> claims, errs |-> ValidateClaims(claims, t), valid |-> FALSE]
            ELSE [claims |-> claims, errs |-> {}, valid |-> TRUE]

ParseToken_ExpiryNotChecked(j, tokenString, t) ==
    LET r == ParseWithClaims(j, tokenString, t)
    IN IF r.errs \ {ErrTokenExpired} # {}
       THEN [claims |-> ZeroClaims, err |-> ErrJwtInvalidToken]
       ELSE [claims |-> r.claims, err |-> NoErr]
ParseToken_NeverExpired(j, tokenString, t) ==
    LET r == ParseWithClaims(j, tokenString, t)
    IN IF r.errs # {} THEN [claims |-> ZeroClaims, err |-> ErrJwtInvalidToken]
       ELSE [claims |-> r.claims, err |-> NoErr]
\* Validator.ParseToken at time t
ParseToken(j, tokenString, t) ==
    LET r == ParseWithClaims(j, tokenString, t)
    IN IF r.errs # {}
       THEN IF ErrTokenExpired \in r.errs
            THEN [claims |-> ZeroClaims, err |-> ErrJwtExpired]
            ELSE [claims |-> ZeroClaims, err |-> ErrJwtInvalidToken]
       ELSE IF r.valid THEN [claims |-> r.claims, err |-> NoErr]
       ELSE [claims |-> ZeroClaims, err |-> ErrJwtInvalidToken]

JwtGenerateToken_ThresholdAsExpiry(j, t, userID, username, data) ==
    SignedString(j.signingMethod,
                 [UserID |-> userID, Username |-> username, Data |-> data,
                  ExpiresAt |-> NewNumericDate(t + j.config.RefreshThreshold * TicksPerSecond),
                  IssuedAt |-> NewNumericDate(t),
                  NotBefore |-> NewNumericDate(t)],
                 j.config.PrivateKey)
\* Validator.GenerateToken(userID, username, data) at time t
JwtGenerateToken(j, t, userID, username, data) ==
    SignedString(j.signingMethod,
                 [UserID |-> userID, Username |-> username, Data |-> data,
                  ExpiresAt |-> NewNumericDate(t + j.config.ExpireTime * TicksPerSecond),
                  IssuedAt |-> NewNumericDate(t),
                  NotBefore |-> NewNumericDate(t)],
                 j.config.PrivateKey)

RefreshToken_KeepsExpiry(j, t, oldClaims) ==
    LET r == SignedString(j.signingMethod,
                          [oldClaims EXCEPT !.IssuedAt = NewNumericDate(t),
                                            !.NotBefore = NewNumericDate(t)],
                          j.config.PrivateKey)
    IN [token |-> r.token, err |-> r.err, oldClaims |-> oldClaims]
RefreshToken_InPlace(j, t, oldClaims) ==
    LET newClaims ==
            [oldClaims EXCEPT
               !.ExpiresAt = NewNumericDate(t + j.config.ExpireTime * TicksPerSecond),
               !.IssuedAt = NewNumericDate(t),
               !.NotBefore = NewNumericDate(t)]
        r == SignedString(j.signingMethod, newClaims, j.config.PrivateKey)
    IN [token |-> r.token, err |-> r.err, oldClaims |-> newClaims]
\* Validator.RefreshToken(oldClaims) at time t; oldClaims is a pointer, so
\* the value it points at after the call is part of the result
RefreshToken(j, t, oldClaims) ==
    LET newClaims ==
            [UserID |-> oldClaims.UserID,
             Username |-> oldClaims.Username,
             Data |-> oldClaims.Data,
             ExpiresAt |-> NewNumericDate(t + j.config.ExpireTime * TicksPerSecond),
             IssuedAt |-> NewNumericDate(t),
             NotBefore |-> NewNumericDate(t)]
        r == SignedString(j.signingMethod, newClaims, j.config.PrivateKey)
    IN [token |-> r.token, err |-> r.err, oldClaims |-> oldClaims]

\* a gin.Context before any validator ran: the keys Valid sets, the response
\* header writes in order, and what Valid returned
NewJwtContext ==
    [claimsSet |-> FALSE, claims |-> ZeroClaims,
     tokenSet |-> FALSE, token |-> MalformedToken,
     headerWrites |-> <<>>, err |-> NoErr]

\* c.Header(key, value)
Header(c, key, value) == [c EXCEPT !.headerWrites = Append(@, <<key, value>>)]

checkAndRefresh_NoThreshold(j, c, claims, t) ==
    IF claims.ExpiresAt = NilDate THEN c
    ELSE LET r == RefreshToken(j, t, claims)
         IN IF r.err # NoErr THEN [c EXCEPT !.claims = r.oldClaims]
            ELSE Header([c EXCEPT !.claims = r.oldClaims], j.config.RefreshHeader, r.token)
\* Validator.checkAndRefresh(c, claims) at time t; claims is the pointer
\* stored in c
checkAndRefresh(j, c, claims, t) ==
    IF claims.ExpiresAt = NilDate THEN c
    ELSE LET timeToExpire == claims.ExpiresAt * TicksPerSecond - t
         IN IF timeToExpire > 0 /\ timeToExpire < j.config.RefreshThreshold * TicksPerSecond
            THEN LET r == RefreshToken(j, t, claims)
                 IN IF r.err # NoErr THEN [c EXCEPT !.claims = r.oldClaims]
                    ELSE Header([c EXCEPT !.claims = r.oldClaims],
                                j.config.RefreshHeader, r.token)
            ELSE c

Valid_RefreshReplacesClaims(j, c, ext, t, elapsed) ==
    IF ext.err # NoErr THEN [c EXCEPT !.err = ext.err]
    ELSE LET p == ParseToken(j, ext.token, t)
         IN IF p.err # NoErr THEN [c EXCEPT !.err = p.err]
            ELSE LET c1 == [c EXCEPT !.claimsSet = TRUE, !.claims = p.claims,
                                     !.tokenSet = TRUE, !.token = ext.token]
                     c2 == checkAndRefresh(j, c1, c1.claims, t + elapsed)
                 IN IF j.config.AutoRefresh /\ c2.headerWrites # <<>>
                    THEN [c2 EXCEPT !.claimsSet = FALSE, !.claims = ZeroClaims]
                    ELSE c1
\* Validator.Valid(c): ext is what extractToken returned for the request,
\* ParseToken runs at time t and the refresh check elapsed ticks later
Valid(j, c, ext, t, elapsed) ==
    IF ext.err # NoErr THEN [c EXCEPT !.err = ext.err]
    ELSE LET p == ParseToken(j, ext.token, t)
         IN IF p.err # NoErr THEN [c EXCEPT !.err = p.err]
            ELSE LET c1 == [c EXCEPT !.claimsSet = TRUE, !.claims = p.claims,
                                     !.tokenSet = TRUE, !.token = ext.token]
                 IN IF j.config.AutoRefresh
                    THEN checkAndRefresh(j, c1, c1.claims, t + elapsed)
                    ELSE c1

\* GetClaims(c): the claims stored under JwtContextKey, and whether any are
GetClaims(c) ==
    IF ~c.claimsSet THEN [claims |-> ZeroClaims, ok |-> FALSE]
    ELSE [claims |-> c.claims, ok |-> TRUE]

GetUserID_Username(c) ==
    IF ~GetClaims(c).ok THEN "" ELSE GetClaims(c).claims.Username
\* GetUserID(c)
GetUserID(c) ==
    IF ~GetClaims(c).ok THEN "" ELSE GetClaims(c).claims.UserID

\* GetUsername(c)
GetUsername(c) ==
    IF ~GetClaims(c).ok THEN "" ELSE GetClaims(c).claims.Username

\* configurations of security.jwt: expire time and refresh threshold in
\* seconds, the signing method unset or one of the other HMAC methods
JwtConfigs ==
    {[PrivateKey |-> "secret", ExpireTime |-> e, AutoRefresh |-> a,
      RefreshThreshold |-> r, RefreshHeader |-> "", SigningMethod |-> ""] :
        e \in {1, 2}, r \in {1, 2}, a \in BOOLEAN}
    \cup
    {[PrivateKey |-> "secret", ExpireTime |-> 2, AutoRefresh |-> TRUE,
      RefreshThreshold |-> 1, RefreshHeader |-> "", SigningMethod |-> m] :
        m \in {"HS384", "HS512"}}

\* arguments of GenerateToken
DataRole == MapOf({<<"role", GoString("admin")>>})
DataInt == MapOf({<<"level", GoInt("5")>>})
DataEmpty == MapOf({})
GenerateArgs ==
    {<<"u1", "alice", NilMap>>, <<"u1", "alice", DataRole>>, <<"u2", "bob", DataInt>>,
     <<"", "", DataEmpty>>}

\* a token some other party signed: its key, its method and its expiry
HandMade(key, method, exp) ==
    SignedString(method,
                 [UserID |-> "u1", Username |-> "alice", Data |-> NilMap,
                  ExpiresAt |-> exp, IssuedAt |-> 0, NotBefore |-> 0],
                 key).token
HandMadeTokens ==
    {HandMade("secret", m, e) : m \in SigningMethods, e \in {NilDate, 1, 3}}
    \cup {HandMade("other", m, 1) : m \in SigningMethods}
\* a token of this validator with the subject changed and the signature kept
Tampered(tok) == [tok EXCEPT !.payload.user_id = [present |-> TRUE, v |-> "root"]]
\* the tokens this validator returned that the model keeps
MintedTokens ==
    {m.token : m \in minted.generated} \cup {m.token : m \in minted.refreshed}
    \cup {m.oldToken : m \in {x \in minted.refreshed : x.own}}
\* the token strings a request may carry
PresentedTokens ==
    MintedTokens \cup {Tampered(m.token) : m \in minted.generated}
    \cup HandMadeTokens \cup {MalformedToken}
\* what extractToken may return for a request
Extractions ==
    {[token |-> tok, err |-> NoErr] : tok \in PresentedTokens}
    \cup {[token |-> MalformedToken, err |-> ErrJwtNotFoundHeaderToken]}

JwtInit ==
    /\ now = 0
    /\ validator \in {New(cfg) : cfg \in JwtConfigs}
    /\ minted = NoMinted
    /\ jwtOp = NoJwtOp
    /\ ExtractIdle /\ SessionIdle /\ SetupIdle /\ RunIdle
    /\ OnceInit /\ RouterIdle /\ SecurityIdle

jwtOthers == <<extractVars, sessionVars, setupVars, runVars, onceVars, routerVars, secVars>>

\* the clock advances between two calls
Tick ==
    /\ jwtOp = NoJwtOp
    /\ now < MaxTime
    /\ now' = now + 1
    /\ UNCHANGED <<validator, minted, jwtOp, jwtOthers>>

\* the caller has looked at what the last call returned
JwtReturn ==
    /\ jwtOp # NoJwtOp
    /\ jwtOp' = NoJwtOp
    /\ UNCHANGED <<now, validator, minted, jwtOthers>>

\* a call of GenerateToken(userID, username, data)
CallGenerateToken(userID, username, data) ==
    LET r == JwtGenerateToken(validator, now, userID, username, data)
    IN /\ jwtOp = NoJwtOp
       /\ minted' = [minted EXCEPT
                       !.generated = {[token |-> r.token, userID |-> userID,
                                       username |-> username]}]
       /\ jwtOp' = [op |-> "GenerateToken", at |-> now, userID |-> userID,
                    username |-> username, data |-> data,
                    token |-> r.token, err |-> r.err]
       /\ UNCHANGED <<now, validator, jwtOthers>>

\* a call of ParseToken(tokenString)
CallParseToken(tokenString) ==
    LET r == ParseToken(validator, tokenString, now)
    IN /\ jwtOp = NoJwtOp
       /\ jwtOp' = [op |-> "ParseToken", at |-> now, token |-> tokenString,
                    claims |-> r.claims, err |-> r.err]
       /\ UNCHANGED <<now, validator, minted, jwtOthers>>

\* the record of a refresh: the new token, the token whose claims were
\* refreshed, those claims, and whether this validator had returned that token
Refreshed(token, oldToken, oldClaims) ==
    [token |-> token, oldToken |-> oldToken, oldClaims |-> oldClaims,
     own |-> oldToken \in MintedTokens]

\* a call of RefreshToken(oldClaims) with the claims ParseToken returned for
\* tokenString in the second parsedAt
CallRefreshToken(tokenString, parsedAt) ==
    LET p == ParseToken(validator, tokenString, parsedAt * TicksPerSecond)
        r == RefreshToken(validator, now, p.claims)
    IN /\ jwtOp = NoJwtOp
       /\ p.err = NoErr
       /\ tokenString \in MintedTokens =>
             UnmarshalClaims(tokenString.payload).IssuedAt <= parsedAt
       /\ minted' = [minted EXCEPT
                       !.refreshed = {Refreshed(r.token, tokenString, p.claims)}]
       /\ jwtOp' = [op |-> "RefreshToken", at |-> now, oldToken |-> tokenString,
                    own |-> tokenString \in MintedTokens,
                    oldClaims |-> p.claims, oldClaimsAfter |-> r.oldClaims,
                    token |-> r.token, err |-> r.err]
       /\ UNCHANGED <<now, validator, jwtOthers>>

\* a call of Valid(c) on a new request
CallValid(ext, elapsed) ==
    LET c == Valid(validator, NewJwtContext, ext, now, elapsed)
    IN /\ jwtOp = NoJwtOp
       /\ now + elapsed <= MaxTime
       /\ now' = now + elapsed
       /\ minted' = IF c.headerWrites = <<>> THEN minted
                    ELSE [minted EXCEPT
                            !.refreshed =
                                {Refreshed(c.headerWrites[Len(c.headerWrites)][2], ext.token,
                                           ParseToken(validator, ext.token, now).claims)}]
       /\ jwtOp' = [op |-> "Valid", at |-> now, checkAt |-> now + elapsed,
                    ext |-> ext, c |-> c, err |-> c.err]
       /\ UNCHANGED <<validator, jwtOthers>>

JwtNext ==
    \/ Tick
    \/ JwtReturn
    \/ /\ jwtOp = NoJwtOp
       /\ \E a \in GenerateArgs : CallGenerateToken(a[1], a[2], a[3])
    \/ /\ jwtOp = NoJwtOp
       /\ \E tok \in PresentedTokens : CallParseToken(tok)
    \/ /\ jwtOp = NoJwtOp
       /\ \E tok \in PresentedTokens, parsedAt \in 0..NewNumericDate(now) :
             CallRefreshToken(tok, parsedAt)
    \/ /\ jwtOp = NoJwtOp
       /\ \E ext \in Extractions, elapsed \in 0..1 : CallValid(ext, elapsed)

SpecJwt == JwtInit /\ [][JwtNext]_vars

(***************************************************************************)
(* Signed-token validator: properties                                      *)
(***************************************************************************)
\* ParseToken, at the time of the call, of the token GenerateToken returned
RoundTrip == ParseToken(validator, jwtOp.token, jwtOp.at)
\* the registered claims of a round trip: issuedAt = notBefore, and the
\* lifetime is the configured expire time
RoundTripDates ==
    /\ RoundTrip.claims.IssuedAt = RoundTrip.claims.NotBefore
    /\ RoundTrip.claims.ExpiresAt - RoundTrip.claims.IssuedAt = validator.config.ExpireTime
\* every value of the map is of a type JSON decoding gives back, and the map
\* is nil or has an entry
JsonNative(data) ==
    /\ data.nil \/ data.entries # {}
    /\ \A e \in data.entries : e[2].t \in {"string", "float64"}
\* the keys of a map with the text of their values, whatever the type
Plain(data) == {<<e[1], e[2].v>> : e \in data.entries}

ExpiryPassed(tok, t) ==
    tok.wellFormed /\ tok.payload.exp.present /\ ~Before(t, tok.payload.exp.v)
\* the token is signed with the validator's key under the validator's method
Authentic(tok) ==
    /\ tok.wellFormed
    /\ tok.alg = validator.signingMethod
    /\ tok.sig = HMAC(tok.alg, validator.config.PrivateKey, <<tok.alg, tok.payload>>)

\* C15 as stated: ParseToken on a token whose expiresAt has passed always
\* fails with the expired error, never with the invalid-token error.
C15_ExpiredAlwaysExpired ==
    (jwtOp.op = "ParseToken" /\ ExpiryPassed(jwtOp.token, jwtOp.at)) =>
        jwtOp.err = ErrJwtExpired

\* C15 amended: ParseToken on a token signed with the validator's key and
\* signing method whose expiresAt has passed fails with the expired error,
\* never with the invalid-token error; a token with a passed expiresAt that
\* is not so signed fails with the invalid-token error.
C15_AuthenticExpiredIsExpired ==
    (jwtOp.op = "ParseToken" /\ ExpiryPassed(jwtOp.token, jwtOp.at)) =>
        IF Authentic(jwtOp.token) THEN jwtOp.err = ErrJwtExpired
        ELSE jwtOp.err = ErrJwtInvalidToken

C15_Witness ==
    /\ jwtOp.op = "ParseToken"
    /\ jwtOp.token \in {m.token : m \in minted.generated}
    /\ ExpiryPassed(jwtOp.token, jwtOp.at)
    /\ jwtOp.err = ErrJwtExpired

\* ParseToken, at the time of the call, of the token RefreshToken returned
Reparsed == ParseToken(validator, jwtOp.token, jwtOp.at)
\* the refreshed token parses on its own and carries the old identity
RefreshKeepsIdentity ==
    /\ jwtOp.err = NoErr /\ Reparsed.err = NoErr
    /\ Reparsed.claims.UserID = jwtOp.oldClaims.UserID
    /\ Reparsed.claims.Username = jwtOp.oldClaims.Username
    /\ Reparsed.claims.Data = jwtOp.oldClaims.Data

\* C16 as stated: RefreshToken(oldClaims) always yields a token whose
\* expiresAt is strictly later than oldClaims.expiresAt, with the same
\* subject id, username and custom data, which ParseToken accepts.
C16_RefreshStrictlyLater ==
    jwtOp.op = "RefreshToken" =>
        /\ RefreshKeepsIdentity
        /\ Reparsed.claims.ExpiresAt > jwtOp.oldClaims.ExpiresAt

\* C16 amended: RefreshToken(oldClaims) yields a token that ParseToken
\* accepts, with the same subject id, username and custom data and with
\* expiresAt = the second of the call + the expire time; for oldClaims of a
\* token this validator issued that is never earlier than
\* oldClaims.expiresAt, and it is strictly later exactly when the call
\* happens in a later clock second than oldClaims.issuedAt.
C16_RefreshNotEarlier ==
    jwtOp.op = "RefreshToken" =>
        /\ RefreshKeepsIdentity
        /\ Reparsed.claims.ExpiresAt = NewNumericDate(jwtOp.at) + validator.config.ExpireTime
        /\ jwtOp.own =>
              /\ Reparsed.claims.ExpiresAt >= jwtOp.oldClaims.ExpiresAt
              /\ (Reparsed.claims.ExpiresAt > jwtOp.oldClaims.ExpiresAt)
                    = (NewNumericDate(jwtOp.at) > jwtOp.oldClaims.IssuedAt)

C16_Witness ==
    /\ jwtOp.op = "RefreshToken"
    /\ jwtOp.own
    /\ jwtOp.oldClaims.Data = DataRole
    /\ Reparsed.err = NoErr
    /\ Reparsed.claims.Data = DataRole
    /\ Reparsed.claims.ExpiresAt > jwtOp.oldClaims.ExpiresAt

\* the token is accepted at the present time
Accepted(tok) == ParseToken(validator, tok, now).err = NoErr
\* the token has no expiresAt, or the present time is before it
Unexpired(claims) == claims.ExpiresAt = NilDate \/ Before(now, claims.ExpiresAt)
\* the last call refreshed a token: RefreshToken, or Valid with a header write
RefreshJustMade ==
    \/ jwtOp.op = "RefreshToken"
    \/ jwtOp.op = "Valid" /\ jwtOp.c.headerWrites # <<>>

\* C17: after a refresh (direct or by the auto-refresh check) ParseToken
\* still accepts the old token, with the old claims, at every time before
\* the old token's expiresAt; the refresh leaves the old claims value as it
\* was; and while the old token is unexpired the new token is accepted too
\* right after the refresh.
C17_RefreshAdditive ==
    /\ \A m \in minted.refreshed :
          /\ Unexpired(m.oldClaims) =>
                ParseToken(validator, m.oldToken, now) = [claims |-> m.oldClaims, err |-> NoErr]
          /\ (RefreshJustMade /\ Unexpired(m.oldClaims)) => Accepted(m.token)
    /\ jwtOp.op = "RefreshToken" => jwtOp.oldClaimsAfter = jwtOp.oldClaims
    /\ (jwtOp.op = "Valid" /\ jwtOp.c.claimsSet) =>
          jwtOp.c.claims = ParseToken(validator, jwtOp.ext.token, jwtOp.at).claims

\* a request's auto-refresh of a token this validator generated: the old and
\* the new token differ and both are accepted
C17_Witness ==
    /\ jwtOp.op = "Valid" /\ jwtOp.c.headerWrites # <<>>
    /\ \E m \in minted.refreshed :
          /\ m.own /\ m.token # m.oldToken
          /\ m.oldToken = jwtOp.ext.token
          /\ Accepted(m.oldToken) /\ Accepted(m.token)

\* Valid returned nil on the last request
ValidSucceeded == jwtOp.op = "Valid" /\ jwtOp.err = NoErr
\* ticks left, at the refresh check, until the presented token expires
Remaining == jwtOp.c.claims.ExpiresAt * TicksPerSecond - jwtOp.checkAt
\* the remaining lifetime is inside the refresh window
InRefreshWindow ==
    /\ jwtOp.c.claims.ExpiresAt # NilDate
    /\ 0 < Remaining
    /\ Remaining < validator.config.RefreshThreshold * TicksPerSecond
\* the refresh header writes of the last request
Writes == jwtOp.c.headerWrites
\* the presented token was issued in the clock second of the refresh check
\* with the validator's expire time
IssuedThisSecond ==
    LET sec == NewNumericDate(jwtOp.checkAt)
    IN /\ jwtOp.c.claims.IssuedAt = sec
       /\ jwtOp.c.claims.NotBefore = sec
       /\ jwtOp.c.claims.ExpiresAt = sec + validator.config.ExpireTime

\* C18 as stated: with auto-refresh on, a successful Valid writes a new token
\* to the refresh header exactly when 0 < expiresAt - now < refreshThreshold,
\* and that token is distinct from the presented one; with auto-refresh off,
\* or outside that window, no header is written.
C18_RefreshWindowDistinct ==
    ValidSucceeded =>
        /\ (Writes # <<>>) = (validator.config.AutoRefresh /\ InRefreshWindow)
        /\ \A i \in 1..Len(Writes) :
              /\ Writes[i][1] = validator.config.RefreshHeader
              /\ Writes[i][2] # jwtOp.ext.token

\* C18 amended: as stated, except that the emitted token is distinct from
\* the presented one unless the presented token was issued in the clock
\* second of the refresh with the validator's expire time, in which case the
\* emitted token is the presented one.
C18_RefreshWindow ==
    ValidSucceeded =>
        /\ (Writes # <<>>) = (validator.config.AutoRefresh /\ InRefreshWindow)
        /\ \A i \in 1..Len(Writes) :
              /\ Writes[i][1] = validator.config.RefreshHeader
              /\ (Writes[i][2] = jwtOp.ext.token) = IssuedThisSecond

C18_Witness ==
    /\ ValidSucceeded
    /\ validator.config.AutoRefresh /\ InRefreshWindow
    /\ validator.config.RefreshThreshold < validator.config.ExpireTime
    /\ jwtOp.ext.token \in {m.token : m \in minted.generated}
    /\ Len(Writes) = 1
    /\ Writes[1][2] # jwtOp.ext.token

\* what ParseToken gave Valid for the extracted token of the last request
ParsedForValid == ParseToken(validator, jwtOp.ext.token, jwtOp.at)

\* C19: a request gets at most one refresh header write, and the write never
\* changes the outcome: when extraction and ParseToken succeed, Valid returns
\* nil and the claims and the token are in the request state, whether or not
\* a refresh was made; when one of them fails, Valid returns its error and
\* writes nothing.
C19_RefreshKeepsOutcome ==
    jwtOp.op = "Valid" =>
        /\ Len(Writes) <= 1
        /\ IF jwtOp.ext.err = NoErr /\ ParsedForValid.err = NoErr
           THEN /\ jwtOp.err = NoErr
                /\ jwtOp.c.claimsSet /\ jwtOp.c.claims = ParsedForValid.claims
                /\ jwtOp.c.tokenSet /\ jwtOp.c.token = jwtOp.ext.token
           ELSE /\ jwtOp.err # NoErr
                /\ jwtOp.err = (IF jwtOp.ext.err # NoErr THEN jwtOp.ext.err
                                ELSE ParsedForValid.err)
                /\ ~jwtOp.c.claimsSet /\ ~jwtOp.c.tokenSet
                /\ Writes = <<>>

\* a token signed elsewhere with the validator's key and method is presented
\* near its expiry and refreshed: one write, and the claims are in the state
C19_Witness ==
    /\ jwtOp.op = "Valid"
    /\ jwtOp.ext.token \in HandMadeTokens
    /\ Len(Writes) = 1
    /\ jwtOp.err = NoErr
    /\ jwtOp.c.claimsSet /\ jwtOp.c.claims.UserID = "u1"

\* C20: a well-formed token whose signing method is not the validator's
\* (with the validator's key or not, expired or not) is rejected by
\* ParseToken with the invalid-token error: never accepted, never reported
\* as expired.
C20_ForeignMethodInvalid ==
    (jwtOp.op = "ParseToken" /\ jwtOp.token.wellFormed
        /\ jwtOp.token.alg # validator.signingMethod) =>
            jwtOp.err = ErrJwtInvalidToken

\* an HS384 token signed with the validator's key, already expired, is
\* presented to an HS256 validator
C20_Witness ==
    /\ jwtOp.op = "ParseToken"
    /\ validator.signingMethod = "HS256"
    /\ jwtOp.token = HandMade(validator.config.PrivateKey, "HS384", 1)
    /\ ExpiryPassed(jwtOp.token, jwtOp.at)
    /\ jwtOp.err = ErrJwtInvalidToken

\* the (subject id, username) pairs GenerateToken was called with for the
\* token of the last request
GeneratedWith ==
    {<<m.userID, m.username>> : m \in {x \in minted.generated : x.token = jwtOp.ext.token}}

\* C21: after a successful Valid the request state holds the claims ParseToken
\* returned and the raw token string, and GetUserID / GetUsername return the
\* subject id and username the token was generated with; on a request with no
\* stored claims GetClaims reports absent and GetUserID / GetUsername return
\* the empty string.
C21_ContextAfterValid ==
    jwtOp.op = "Valid" =>
        IF jwtOp.err = NoErr
        THEN /\ GetClaims(jwtOp.c) = [claims |-> ParsedForValid.claims, ok |-> TRUE]
             /\ jwtOp.c.tokenSet /\ jwtOp.c.token = jwtOp.ext.token
             /\ \A g \in GeneratedWith :
                   GetUserID(jwtOp.c) = g[1] /\ GetUsername(jwtOp.c) = g[2]
        ELSE /\ ~jwtOp.c.claimsSet
             /\ ~GetClaims(jwtOp.c).ok
             /\ GetUserID(jwtOp.c) = "" /\ GetUsername(jwtOp.c) = ""

\* a token generated for u2 / bob is presented and accepted
C21_Witness ==
    /\ jwtOp.op = "Valid" /\ jwtOp.err = NoErr
    /\ GeneratedWith = {<<"u2", "bob">>}
    /\ GetUserID(jwtOp.c) = "u2" /\ GetUsername(jwtOp.c) = "bob"

\* the last call handed the token to ParseToken, directly or through Valid
ParsedToken ==
    IF jwtOp.op = "ParseToken" THEN {jwtOp.token}
    ELSE IF jwtOp.op = "Valid" /\ jwtOp.ext.err = NoErr THEN {jwtOp.ext.token}
    ELSE {}
\* every token string this run can present, now or after the step
AnyToken == PresentedTokens \cup PresentedTokens'

\* C22: once a token's expiresAt has passed, ParseToken and Valid fail for
\* it (Valid leaving the request state and the refresh header untouched), and
\* no step, a refresh included, makes that token string accepted again: a
\* token that is past its expiresAt before a step is rejected after it.
C22_ExpiredTerminal ==
    /\ [](\A tok \in ParsedToken :
             ExpiryPassed(tok, jwtOp.at) =>
                 /\ jwtOp.err # NoErr
                 /\ jwtOp.op = "Valid" =>
                        ~jwtOp.c.claimsSet /\ ~jwtOp.c.tokenSet /\ jwtOp.c.headerWrites = <<>>)
    /\ [][\A tok \in AnyToken :
              ExpiryPassed(tok, now) =>
                  /\ ExpiryPassed(tok, now')
                  /\ ParseToken(validator', tok, now').err # NoErr]_vars

\* a token of this validator was refreshed, then expired, and is presented:
\* it is rejected as expired while its refreshed successor is accepted
C22_Witness ==
    /\ jwtOp.op = "ParseToken"
    /\ ExpiryPassed(jwtOp.token, jwtOp.at)
    /\ jwtOp.err = ErrJwtExpired
    /\ \E m \in minted.refreshed :
          m.own /\ m.oldToken = jwtOp.token /\ Accepted(m.token)

(***************************************************************************)
(* Session validator (middlewares/security/session)                        *)
(***************************************************************************)
ErrNotFoundSession == "not found session"
DefaultSessionKey == "user"

\* a nil interface{}
NilValue == [t |-> "nil", v |-> ""]

\* session.Get(key): the value under key, nil when there is none
SessionGet(s, key) == IF key \in DOMAIN s THEN s[key] ELSE NilValue

\* session.New(cfg)
SessionNew(cfg) ==
    [built |-> TRUE,
     config |-> [cfg EXCEPT !.SessionKey = IF @ = "" THEN DefaultSessionKey ELSE @]]

\* a gin.Context before the validator ran: the value under ContextKey and
\* what Valid returned
NewSessionContext == [sessionUserSet |-> FALSE, sessionUser |-> NilValue, err |-> NoErr]

SessionValid_DefaultKey(v, c, s) ==
    LET value == SessionGet(s, DefaultSessionKey)
    IN IF value = NilValue THEN [c EXCEPT !.err = ErrNotFoundSession]
       ELSE [c EXCEPT !.sessionUserSet = TRUE, !.sessionUser = value]
\* session Validator.Valid(c) on the session store s of the request
SessionValid(v, c, s) ==
    LET value == SessionGet(s, v.config.SessionKey)
    IN IF value = NilValue THEN [c EXCEPT !.err = ErrNotFoundSession]
       ELSE [c EXCEPT !.sessionUserSet = TRUE, !.sessionUser = value]

\* security.session.session_key: unset or set
SessionConfigs == {[SessionKey |-> k] : k \in {"", "uid"}}
\* keys and values handlers put into the session
SessionKeys == {"user", "uid", "cart"}
SessionValues == {NilValue, GoString("alice"), GoString("bob")}

SessionInit ==
    /\ sessionStore = <<>>
    /\ sessionValidator \in {SessionNew(cfg) : cfg \in SessionConfigs}
    /\ sessionOp = NoSessionOp
    /\ ExtractIdle /\ JwtIdle /\ SetupIdle /\ RunIdle
    /\ OnceInit /\ RouterIdle /\ SecurityIdle

sessionOthers == <<extractVars, jwtVars, setupVars, runVars, onceVars, routerVars, secVars>>

\* a handler (login) puts a value under a key: session.Set and session.Save
SessionSet(key, value) ==
    /\ sessionStore' = Set(sessionStore, key, value)
    /\ UNCHANGED <<sessionValidator, sessionOp, sessionOthers>>

\* a handler (logout) removes a key: session.Delete and session.Save
SessionDelete(key) ==
    /\ key \in DOMAIN sessionStore
    /\ sessionStore' = Del(sessionStore, key)
    /\ UNCHANGED <<sessionValidator, sessionOp, sessionOthers>>

\* a call of Valid(c) on a new request of the session
CallSessionValid ==
    /\ sessionOp' = [op |-> "Valid", session |-> sessionStore,
                     c |-> SessionValid(sessionValidator, NewSessionContext, sessionStore)]
    /\ UNCHANGED <<sessionStore, sessionValidator, sessionOthers>>

SessionNext ==
    \/ \E k \in SessionKeys, v \in SessionValues : SessionSet(k, v)
    \/ \E k \in SessionKeys : SessionDelete(k)
    \/ CallSessionValid

SpecSession == SessionInit /\ [][SessionNext]_vars

\* the store the last Valid saw holds a non-nil value under the configured key
SessionHeld ==
    /\ sessionValidator.config.SessionKey \in DOMAIN sessionOp.session
    /\ sessionOp.session[sessionValidator.config.SessionKey] # NilValue

\* C24: the session validator's Valid succeeds exactly when the session store
\* holds a non-nil value under the configured session key; on success that
\* value is in the request state under the context key, and otherwise Valid
\* fails with the session-not-found error and stores nothing.
C24_SessionValid ==
    sessionOp.op = "Valid" =>
        /\ (sessionOp.c.err = NoErr) = SessionHeld
        /\ SessionHeld =>
              /\ sessionOp.c.sessionUserSet
              /\ sessionOp.c.sessionUser = sessionOp.session[sessionValidator.config.SessionKey]
        /\ ~SessionHeld =>
              /\ sessionOp.c.err = ErrNotFoundSession
              /\ ~sessionOp.c.sessionUserSet

\* the configured key is not the default one, the store holds a value under
\* it and another under the default key, and Valid stores the former
C24_Witness ==
    /\ sessionOp.op = "Valid"
    /\ sessionValidator.config.SessionKey = "uid"
    /\ sessionOp.session = [k \in {"user", "uid"} |->
                               IF k = "uid" THEN GoString("bob") ELSE GoString("alice")]
    /\ sessionOp.c.err = NoErr
    /\ sessionOp.c.sessionUser = GoString("bob")

(***************************************************************************)
(* Construction of the single-use token validator (once_token, logger)     *)
(***************************************************************************)
ErrOnceTokenRedisNotConfig == "redis client not configured"

\* zapcore levels in their order
LogLevels == <<"debug", "info", "warn", "error", "dpanic", "panic", "fatal">>
LevelIndex(l) == CHOOSE i \in 1..Len(LogLevels) : LogLevels[i] = l
\* zapcore Level.Enabled: level.Enabled(lvl) is lvl >= level
LevelEnabled(level, lvl) == LevelIndex(lvl) >= LevelIndex(level)

\* logger.Panic(args): TRUE when the call panics, FALSE when it returns.
\* With no global logger the receiver is nil and reading its level panics;
\* a logger whose level does not enable PanicLevel returns without logging.
LoggerPanic(level) ==
    IF level = NoLogger THEN TRUE
    ELSE LevelEnabled(level, "panic")

\* NewOnceTokenValidatorWithConfig(cfg, redisClient...): clientArg is the
\* optional client (NilClient when absent or nil), redisx the global client
NewOnceTokenValidatorWithConfig(level, redisx, clientArg) ==
    IF clientArg # NilClient
    THEN [panic |-> FALSE, otv |-> [nil |-> FALSE, redisClient |-> clientArg]]
    ELSE IF redisx = NilClient /\ LoggerPanic(level)
    THEN [panic |-> TRUE, otv |-> NilOtv]
    ELSE [panic |-> FALSE, otv |-> [nil |-> FALSE, redisClient |-> redisx]]

\* NewOnceTokenValidator()
NewOnceTokenValidator(level, redisx) ==
    IF redisx = NilClient /\ LoggerPanic(level)
    THEN [panic |-> TRUE, otv |-> NilOtv]
    ELSE [panic |-> FALSE, otv |-> [nil |-> FALSE, redisClient |-> redisx]]

\* InitOnceToken() on the package-level validator g
InitOnceToken(level, redisx, g) ==
    IF g = NilOtv THEN NewOnceTokenValidator(level, redisx)
    ELSE [panic |-> FALSE, otv |-> g]

\* a method of otv that reads or writes the store (GenerateToken,
\* ValidateAndConsumeToken): calling a method of a nil client panics
UseStore(otv) ==
    IF otv.redisClient = NilClient THEN [panic |-> TRUE, client |-> NilClient]
    ELSE [panic |-> FALSE, client |-> otv.redisClient]

\* GenerateOnceToken / ValidateOnceToken: initialise when needed, then call
\* the method on the package-level validator
GlobalCall(level, redisx, g) ==
    LET i == IF g = NilOtv THEN InitOnceToken(level, redisx, g)
             ELSE [panic |-> FALSE, otv |-> g]
    IN IF i.panic THEN [panic |-> TRUE, otv |-> g, client |-> NilClient]
       ELSE [panic |-> UseStore(i.otv).panic, otv |-> i.otv, client |-> UseStore(i.otv).client]

SetupInit ==
    /\ logLevel \in {LogLevels[i] : i \in 1..Len(LogLevels)} \cup {NoLogger}
    /\ redisxClient = NilClient
    /\ globalOnceTokenValidator = NilOtv
    /\ localValidator = NilOtv
    /\ setupOp = NoSetupOp
    /\ ExtractIdle /\ JwtIdle /\ SessionIdle /\ RunIdle
    /\ OnceInit /\ RouterIdle /\ SecurityIdle

setupOthers == <<extractVars, jwtVars, sessionVars, runVars, onceVars, routerVars, secVars>>

\* redisx.Setup() finds a redis section in the configuration
RedisSetup ==
    /\ redisxClient = NilClient
    /\ redisxClient' = "redisx"
    /\ UNCHANGED <<logLevel, globalOnceTokenValidator, localValidator, setupOp, setupOthers>>

\* a call of NewOnceTokenValidator()
CallNewOnceTokenValidator ==
    LET r == NewOnceTokenValidator(logLevel, redisxClient)
    IN /\ localValidator' = r.otv
       /\ setupOp' = [op |-> "NewOnceTokenValidator", panic |-> r.panic,
                      redisx |-> redisxClient, client |-> NilClient]
       /\ UNCHANGED <<logLevel, redisxClient, globalOnceTokenValidator, setupOthers>>

\* a call of NewOnceTokenValidatorWithConfig(cfg, clientArg), also what
\* OnceTokenMiddleware does
CallNewOnceTokenValidatorWithConfig(clientArg) ==
    LET r == NewOnceTokenValidatorWithConfig(logLevel, redisxClient, clientArg)
    IN /\ localValidator' = r.otv
       /\ setupOp' = [op |-> "NewOnceTokenValidatorWithConfig", panic |-> r.panic,
                      redisx |-> redisxClient, client |-> clientArg]
       /\ UNCHANGED <<logLevel, redisxClient, globalOnceTokenValidator, setupOthers>>

\* a call of InitOnceToken()
CallInitOnceToken ==
    LET r == InitOnceToken(logLevel, redisxClient, globalOnceTokenValidator)
    IN /\ globalOnceTokenValidator' = r.otv
       /\ setupOp' = [op |-> "InitOnceToken", panic |-> r.panic,
                      redisx |-> redisxClient, client |-> NilClient]
       /\ UNCHANGED <<logLevel, redisxClient, localValidator, setupOthers>>

\* a call of GenerateOnceToken or ValidateOnceToken
CallGlobal(op) ==
    LET r == GlobalCall(logLevel, redisxClient, globalOnceTokenValidator)
    IN /\ globalOnceTokenValidator' = r.otv
       /\ setupOp' = [op |-> op, panic |-> r.panic,
                      redisx |-> redisxClient, client |-> r.client]
       /\ UNCHANGED <<logLevel, redisxClient, localValidator, setupOthers>>

\* a call of GenerateToken or Valid on the validator the last constructor
\* call returned
CallLocal(op) ==
    /\ localValidator # NilOtv
    /\ setupOp' = [op |-> op, panic |-> UseStore(localValidator).panic,
                   redisx |-> redisxClient, client |-> UseStore(localValidator).client]
    /\ UNCHANGED <<logLevel, redisxClient, globalOnceTokenValidator, localValidator,
                   setupOthers>>

SetupNext ==
    \/ RedisSetup
    \/ CallNewOnceTokenValidator
    \/ \E clientArg \in {NilClient, "custom"} : CallNewOnceTokenValidatorWithConfig(clientArg)
    \/ CallInitOnceToken
    \/ \E op \in {"GenerateOnceToken", "ValidateOnceToken"} : CallGlobal(op)
    \/ \E op \in {"GenerateToken", "Valid"} : CallLocal(op)

SpecOnceSetup == SetupInit /\ [][SetupNext]_vars

\* the last call was a constructor call made with no store client available
ConstructedWithoutStore ==
    /\ setupOp.op \in {"NewOnceTokenValidator", "NewOnceTokenValidatorWithConfig",
                        "InitOnceToken"}
    /\ setupOp.redisx = NilClient /\ setupOp.client = NilClient
\* the last call generated or validated a token
UsedValidator ==
    setupOp.op \in {"GenerateOnceToken", "ValidateOnceToken", "GenerateToken", "Valid"}

\* C27: construction of a single-use-token validator with no store client
\* (neither supplied nor globally configured) fails fast, so that no
\* validator without a store exists and no token is generated and no request
\* validated by one.
C27_NoValidatorWithoutStore ==
    /\ (ConstructedWithoutStore /\ setupOp.op # "InitOnceToken") => setupOp.panic
    /\ (ConstructedWithoutStore /\ globalOnceTokenValidator = NilOtv) => setupOp.panic
    /\ localValidator # NilOtv => localValidator.redisClient # NilClient
    /\ globalOnceTokenValidator # NilOtv => globalOnceTokenValidator.redisClient # NilClient
    /\ (UsedValidator /\ ~setupOp.panic) => setupOp.client # NilClient

(***************************************************************************)
(* Run, Async and AsyncWithCancel (gfa.go) over syncx.All                  *)
(***************************************************************************)
RunInit ==
    /\ RunIdle
    /\ ExtractIdle /\ JwtIdle /\ SessionIdle /\ SetupIdle
    /\ OnceInit /\ RouterIdle /\ SecurityIdle

runOthers == <<extractVars, jwtVars, sessionVars, setupVars, onceVars, routerVars, secVars>>

\* the process is alive and main has not returned from Run
Alive == run \in {"idle", "serving"}

\* the caller's part of Async and AsyncWithCancel: cancelWg.Add(1) and the
\* go statement.  ctx is what fn will be handed: nothing ("none"), or the
\* package-level cancelCtx, which the goroutine has yet to read ("unread")
Go(f, withCancel) ==
    /\ Alive
    /\ async[f].state = "none"
    /\ cancelWg' = cancelWg + 1
    /\ async' = [async EXCEPT ![f] =
                     [state |-> "spawned",
                      ctx |-> IF withCancel THEN "unread" ELSE "none",
                      during |-> run]]
    /\ UNCHANGED <<run, server, waiter, cancelCtx, runOthers>>

\* what the goroutine's read of the package-level cancelCtx can give: "nil"
\* before Run assigned it, the context of Run ("run") after; a goroutine
\* started before Run reads it with no synchronisation with Run's
\* assignment, so once Run has assigned it the read gives the old nil, the
\* new context, or a torn interface value
ReadCancelCtx(f) ==
    IF cancelCtx = "nil" THEN {"nil"}
    ELSE IF async[f].during = "idle" THEN {"nil", "run", "torn"}
    ELSE {"run"}

\* the goroutine is scheduled: it evaluates the argument cancelCtx and calls fn
FuncStart(f, seen) ==
    /\ run # "crashed"
    /\ async[f].state = "spawned"
    /\ async' = [async EXCEPT ![f].state = "running",
                              ![f].ctx = IF @ = "unread" THEN seen ELSE @]
    /\ UNCHANGED <<run, server, waiter, cancelCtx, cancelWg, runOthers>>

\* Async(fn)
Async(f) == Go(f, FALSE)

\* AsyncWithCancel(fn)
AsyncWithCancel(f) == Go(f, TRUE)

\* fn returns and the deferred cancelWg.Done() runs; a Wait that is blocked
\* is released when the counter reaches zero
FuncReturn(f) ==
    /\ run # "crashed"
    /\ async[f].state = "running"
    /\ async' = [async EXCEPT ![f].state = "done"]
    /\ cancelWg' = cancelWg - 1
    /\ waiter' = IF waiter = "waiting" /\ cancelWg = 1 THEN "done" ELSE waiter
    /\ UNCHANGED <<run, server, cancelCtx, runOthers>>

\* Run up to the start of the two goroutines of syncx.All; when graceful.New
\* fails Run logs the error and returns
RunStart(newOk) ==
    /\ run = "idle"
    /\ IF newOk
       THEN /\ run' = "serving"
            /\ cancelCtx' = "active"
            /\ server' = "serving"
            /\ waiter' = "started"
       ELSE /\ run' = "returned"
            /\ UNCHANGED <<cancelCtx, server, waiter>>
    /\ UNCHANGED <<cancelWg, async, runOthers>>

\* the second goroutine of syncx.All reaches cancelWg.Wait(): it returns at
\* once when the counter is zero, and blocks otherwise
CancelWgWait ==
    /\ run = "serving"
    /\ waiter = "started"
    /\ waiter' = IF cancelWg = 0 THEN "done" ELSE "waiting"
    /\ UNCHANGED <<run, server, cancelCtx, cancelWg, async, runOthers>>

\* SIGINT or SIGTERM arrives: signal.NotifyContext cancels cancelCtx
Signal ==
    /\ run = "serving"
    /\ cancelCtx = "active"
    /\ cancelCtx' = "cancelled"
    /\ UNCHANGED <<run, server, waiter, cancelWg, async, runOthers>>

\* RunWithContext returns after the context was cancelled: the server has
\* shut down and the first goroutine of syncx.All ends
ServerStop ==
    /\ run = "serving"
    /\ server = "serving"
    /\ cancelCtx = "cancelled"
    /\ server' = "stopped"
    /\ UNCHANGED <<run, waiter, cancelCtx, cancelWg, async, runOthers>>

\* RunWithContext returns another error (the address is in use):
\* logger.Panic(err) panics in the goroutine and ends the process, or, when
\* the logger level does not enable PanicLevel, returns
ServerFail(panics) ==
    /\ run = "serving"
    /\ server = "serving"
    /\ IF panics
       THEN run' = "crashed" /\ server' = "failed"
       ELSE run' = run /\ server' = "failed"
    /\ UNCHANGED <<waiter, cancelCtx, cancelWg, async, runOthers>>

\* wg.Wait() of syncx.All returns when both goroutines have ended, and Run
\* returns (the deferred stop() and gracefulServer.Close() run)
RunReturn ==
    /\ run = "serving"
    /\ server \in {"stopped", "failed"}
    /\ waiter = "done"
    /\ run' = "returned"
    /\ cancelCtx' = "cancelled"
    /\ UNCHANGED <<server, waiter, cancelWg, async, runOthers>>

RunNext ==
    \/ \E f \in AsyncFuncs : Async(f)
    \/ \E f \in AsyncFuncs : AsyncWithCancel(f)
    \/ \E f \in AsyncFuncs : \E seen \in ReadCancelCtx(f) : FuncStart(f, seen)
    \/ \E f \in AsyncFuncs : FuncReturn(f)
    \/ \E newOk \in BOOLEAN : RunStart(newOk)
    \/ CancelWgWait
    \/ Signal
    \/ ServerStop
    \/ \E panics \in BOOLEAN : ServerFail(panics)
    \/ RunReturn

SpecRun == RunInit /\ [][RunNext]_vars

\* C30: when Run has returned, the HTTP server has stopped and every
\* function started through Async or AsyncWithCancel has returned, the
\* functions started after Run began serving included.
C30_RunWaitsForAll ==
    run = "returned" =>
        /\ server \in {"stopped", "failed"}
        /\ \A f \in AsyncFuncs : async[f].state \notin {"spawned", "running"}

\* the functions started with AsyncWithCancel that have been called
CalledWithCancel ==
    {f \in AsyncFuncs : async[f].state \in {"running", "done"} /\ async[f].ctx # "none"}

\* the context handed to f has been cancelled
Cancelled(f) == async[f].ctx = "run" /\ cancelCtx = "cancelled"

\* C37: the context passed to a function started with AsyncWithCancel is the
\* shutdown context of Run: it is non-nil when the function runs, and it is
\* cancelled once Run has received SIGINT or SIGTERM, also when
\* AsyncWithCancel was called before Run, under every interleaving of the
\* goroutine with Run's assignment of the context.
C37_ContextIsShutdownContext ==
    \A f \in CalledWithCancel :
        /\ async[f].ctx = "run"
        /\ cancelCtx = "cancelled" => Cancelled(f)

====
